---- MODULE Spec2Model ----
(***************************************************************************)
(* Model of the avatar backend:                                            *)
(*   - the video scheduler, runner and poller                              *)
(*       (src/controllers/videoGenerationController.js, lines 602-1102),   *)
(*   - the audio queue worker and its text chunker (src/unnamed/part_002), *)
(*   - the quota gate and the usage counters (src/unnamed/part_003),       *)
(*   - the video chat session, handleVideoChat                             *)
(*       (src/unnamed/part_013 and src/ws/videoChatHandler.js).            *)
(* Node runs every handler to its next await without interruption, so one  *)
(* action is one such run: from the resumption of an await to the next     *)
(* suspension, with every synchronous call it makes (processVideoQueue,    *)
(* processQueue) included.                                                 *)
(* Minutes are counted in thousandths so that the arithmetic is integral.  *)
(***************************************************************************)
EXTENDS Integers, Sequences, FiniteSets, TLC

\* ---------------------------------------------------------------- bounds
MaxVideoJobs == 2       \* video submissions, all runner outcomes (Spec)
MaxAudioJobs == 2       \* audio submissions, all runner outcomes (Spec)
MaxOrderJobs == 3       \* submissions per queue in the ordering specification
MaxWorkers == 2         \* MAX_CONCURRENT_JOBS ranges over 1..MaxWorkers
MaxAttempts == 2        \* the poller's attempt limit for quality fast, scaled
MaxChunks == 2          \* chunks of an audio text
MaxAdmitRows == 1       \* rows per table in the admission specification
MaxDeletes == 2         \* delete requests in flight at once
MaxDeliveries == 2      \* worker callbacks delivered per job
FirstSecond == 8        \* the clock's first value; 8..11 spans a change of length
MaxSeconds == 3         \* seconds the clock advances
MaxBuffers == 4         \* audio buffers given to concatenateAudioFiles
MaxMedia == 2           \* binary messages per upstream of one session

\* ------------------------------------------------------- program constants
MaxVideoTextChars == 500
MaxAudioTextChars == 1000
DefaultPromptLen == 60

VARIABLES
    W,              \* MAX_CONCURRENT_JOBS, read once from the environment
    videoQueue,     \* videoQueue: ids of the tasks waiting, oldest first
    activeJobs,     \* activeJobs
    vtask,          \* the task object pushed for each video job
    vpc,            \* where each video job's promise chain stands
    vrow,           \* video_generation_history rows
    attempts,       \* _pollVideoCompletion: attempts, per job
    tempBlob,       \* task.tempAudioFileName / cleanupAudioFile, per job
    storage,        \* keys present in bucket avatar-media
    videoUsed,      \* profiles.video_generation_minutes_this_month
    videoLimit,     \* profiles.video_generation_minutes_monthly_limit
    usageRead,      \* updateVideoUsage: currentUsage read, per job
    processingQueue,\* audio: processingQueue
    isProcessing,   \* audio: isProcessing
    atask,          \* the task object pushed for each audio job
    apc,            \* where processQueue stands for each audio job
    arow,           \* generated_audios rows
    chunkIdx,       \* processQueue: i, chunks synthesized so far
    audioUsed,      \* profiles.audio_generation_this_month
    audioLimit,     \* profiles.audio_generation_monthly_limit
    audioRead,      \* updateAudioUsage: currentUsage read, per job
    res,            \* the response sent by the step just taken, if it sent one
    \* history, read by the properties only
    dequeued,       \* video job ids in the order videoQueue.shift() returned them
    started,        \* the highest job id processVideoGeneration was called for, and
                    \* whether it was ever called for a lower id after a higher one
    adequeued,      \* audio job ids in the order processingQueue.shift() returned them
    released,       \* per video job: how often its dispatch decremented activeJobs
    exitPath,       \* per video job: how its runner ended
    uploaded,       \* every key an upload call stored successfully
    commits,        \* per video job: calls of updateVideoUsage
    acommits,       \* per audio job: calls of updateAudioUsage
    ledger          \* sum of the amounts whose profile write was applied

\* One video chat session (handleVideoChat) and the turns of its client.
VARIABLES
    variant,        \* which handleVideoChat serves the session: "mediator" is
                    \* src/unnamed/part_013, "handler" is src/ws/videoChatHandler.js
    cpc,            \* where the body of handleVideoChat stands
    hpc,            \* where the ws "close" listener stands
    ws,             \* readyState of the client socket
    now,            \* the wall clock, in milliseconds
    conversationStartTime,
    connectionTimeout,
    isVideoReady,
    isVoiceReady,
    isFullyConnected,
    videoServiceWs, \* "null", or the readyState of the video upstream socket
    voiceServiceWs, \* "null", or the readyState of the voice upstream socket
    streamOpen,     \* the video service holds a stream for sessionId
    durationMs,     \* the close listener's conversationEndTime - conversationStartTime
    tpc,            \* per user turn: where its "message" listener stands
    \* history, read by the properties only
    closedAt,       \* the clock when the client socket closed
    frames,         \* what the session sent to the client and did for it
    signalled,      \* which upstreams have signalled readiness, and how often
    llmCalls,       \* turns in the order getGeminiResponse was called for them
    spoken,         \* turns in the order text_to_speak was sent to the voice upstream
    lastStop,       \* what the last stop_speaking from the client caused
    replies,        \* the llm_response_text frames sent to the client: <<turn, text>>
    said,           \* the text_to_speak messages sent to the voice upstream: <<turn, text>>
    transcript      \* chatMessages: <<role, turn>>

\* One call of splitTextIntoChunks.
VARIABLES
    srcText,        \* text: the argument
    maxTokens,      \* maxTokens: the argument
    finalChunks     \* finalChunks: the value returned, NotRun before the call

chatVars == <<variant, cpc, hpc, ws, now, conversationStartTime, connectionTimeout,
              isVideoReady, isVoiceReady, isFullyConnected, videoServiceWs,
              voiceServiceWs, streamOpen, durationMs, tpc, closedAt, frames,
              signalled, llmCalls, spoken, lastStop, replies, said, transcript>>
chunkVars == <<srcText, maxTokens, finalChunks>>

\* The delete handlers.
VARIABLES
    del,            \* per request in flight: where deleteVideo / deleteAudio stands
    deleted         \* the rows a delete request has removed, as <<kind, id>>

\* The worker callback endpoint.
VARIABLES
    delivered       \* per job: the statuses of the callbacks delivered for it, in order

\* Voice-service tokens.
VARIABLES
    clock,          \* Math.floor(Date.now() / 1000)
    tokens,         \* the tokens generated so far, each with the second it was built at
    verdict         \* what the last verification of a token found

\* One call of concatenateAudioFiles.
VARIABLES
    tempDirFiles,   \* the files the call has left in tempDir
    concat          \* where the call stands, and what it was given

\* Binary messages of a video session.
VARIABLES
    arrivals,       \* the binary messages of the upstreams in the order they came
    toClient,       \* the binary frames sent to the client
    toVideo         \* the binary messages sent to the video upstream

\* The records a video session leaves in the database.
VARIABLES
    conversation,   \* status of the session's row of "conversations", "none" without a row
    chat_history,   \* the rows of "chat_history": the chat_messages of each
    voiceErrors     \* "error" messages of the voice upstream handled so far

\* The LLM client, services/gemini.js.
VARIABLES
    chatSessions,   \* the Map: session id -> chatHistory, entries <<role, turn>>
    contents,       \* the contents of the last model.generateContent call
    gcall,          \* the getGeminiResponse call in flight and its local chatHistory
    gsession        \* the session that calls: its kind, its turns, whether it closed

mediaVars == <<arrivals, toClient, toVideo>>
recordVars == <<conversation, chat_history, voiceErrors>>
geminiVars == <<chatSessions, contents, gcall, gsession>>
moreVars == <<recordVars, geminiVars>>
sideVars == <<del, deleted, delivered, clock, tokens, verdict, tempDirFiles, concat,
              mediaVars, moreVars>>

jobVars == <<W, videoQueue, activeJobs, vtask, vpc, vrow, attempts, tempBlob, storage,
             videoUsed, videoLimit, usageRead, processingQueue, isProcessing, atask,
             apc, arow, chunkIdx, audioUsed, audioLimit, audioRead, res,
             dequeued, started, adequeued, released, exitPath, uploaded, commits,
             acommits, ledger>>

vars == <<jobVars, chatVars, chunkVars, sideVars>>

videoVars == <<videoQueue, activeJobs, vtask, vpc, vrow, attempts, tempBlob,
               usageRead, dequeued, started, released, exitPath, commits>>
audioVars == <<processingQueue, isProcessing, atask, apc, arow, chunkIdx,
               audioRead, adequeued, acommits>>

Max(a, b) == IF a >= b THEN a ELSE b

VideoIds == 1..Max(Max(MaxVideoJobs, MaxOrderJobs), MaxAdmitRows)
AudioIds == 1..Max(Max(MaxAudioJobs, MaxOrderJobs), MaxAdmitRows)

\* ------------------------------------------------------------ request data
\* A text is known by its length, its length after trim() and its word count
\* (trim().split(/\s+/).length).
NoText == [len |-> -1, trimLen |-> -1, words |-> 0]      \* body.text undefined
BlankText == [len |-> 3, trimLen |-> 0, words |-> 1]     \* whitespace only
ShortText == [len |-> 80, trimLen |-> 80, words |-> 12]
EdgeVideoText == [len |-> MaxVideoTextChars, trimLen |-> MaxVideoTextChars, words |-> 70]
LongVideoText == [len |-> MaxVideoTextChars + 1, trimLen |-> MaxVideoTextChars + 1,
                  words |-> 70]
ExactAudioText == [len |-> MaxAudioTextChars, trimLen |-> MaxAudioTextChars,
                   words |-> 180]
EdgeAudioText == [len |-> MaxAudioTextChars + 2, trimLen |-> MaxAudioTextChars,
                  words |-> 180]
LongAudioText == [len |-> MaxAudioTextChars + 1, trimLen |-> MaxAudioTextChars + 1,
                  words |-> 180]

\* JavaScript truthiness of a string: undefined and "" are falsy.
Truthy(text) == text.len > 0
\* !text || !text.trim()
Blank(text) == ~Truthy(text) \/ text.trimLen = 0

User == "u1"
NoUser == "anonymous"

\* avatars table: id -> row. "A1" has a voice sample, "A2" has none,
\* "A0" is not in the table; NoAvatar is a body without avatarId.
NoAvatar == "none"
AvatarRow(avatarId) ==
    CASE avatarId = "A1" -> [found |-> TRUE, voice_url |-> TRUE]
      [] avatarId = "A2" -> [found |-> TRUE, voice_url |-> FALSE]
      [] OTHER -> [found |-> FALSE, voice_url |-> FALSE]

\* Storage keys and public URLs.
TempAudioKey(owner, id) == <<"temp_audio", owner, id>>
VideoKey(id, quality) == <<"generated_videos", id, quality>>
AudioKey(owner, id) == <<"generated_audio", owner, id>>
PublicUrl(key) == <<"public", key>>
NoUrl == <<>>
EmptyUrl == <<"">>

\* ------------------------------------------------------------------- rows
NoRow == [status |-> "absent", url |-> NoUrl, error_message |-> "null",
          progress |-> 0, input_type |-> "null", prompt |-> NoText,
          user_id |-> NoUser, avatar_id |-> NoAvatar]
NoVideoTask == [userId |-> NoUser, avatarId |-> NoAvatar, text |-> NoText,
                quality |-> "fast", audioUrl |-> FALSE, inputType |-> "undefined"]
NoAudioTask == [userId |-> NoUser, voiceId |-> NoAvatar, text |-> NoText, chunks |-> 0]

\* The id the store gives the next inserted row; the id of a deleted row is not
\* given again.
NextVideoId ==
    Cardinality({j \in VideoIds : vrow[j].status # "absent" \/ <<"video", j>> \in deleted}) + 1
NextAudioId ==
    Cardinality({j \in AudioIds : arow[j].status # "absent" \/ <<"audio", j>> \in deleted}) + 1

\* req.usageInfo / req.audioUsageInfo as the quota gate sets it: the resource and
\* the amount the request was estimated at; NoUsageInfo when the gate set none.
NoUsageInfo == [resource |-> "none", requested |-> 0]

\* A response: its HTTP status (0: the step sent none) and the request's usage info.
Response(status, usageInfo) == [status |-> status, usageInfo |-> usageInfo]
NoResponse == Response(0, NoUsageInfo)

\* --------------------------------------------------------- video scheduler
\* processVideoQueue with the concurrency test dropped from the loop condition.
RECURSIVE ProcessVideoQueueNoCap(_)
ProcessVideoQueueNoCap(s) ==
    IF Len(s.q) > 0
    THEN ProcessVideoQueueNoCap(
             [q |-> Tail(s.q), active |-> s.active + 1,
              pc |-> [s.pc EXCEPT ![Head(s.q)] = "updating"],
              deq |-> Append(s.deq, Head(s.q))])
    ELSE s

\* processVideoQueue with pop() in place of shift().
RECURSIVE ProcessVideoQueueLifo(_)
ProcessVideoQueueLifo(s) ==
    IF Len(s.q) > 0 /\ s.active < W
    THEN LET last == s.q[Len(s.q)]
         IN ProcessVideoQueueLifo(
                [q |-> SubSeq(s.q, 1, Len(s.q) - 1), active |-> s.active + 1,
                 pc |-> [s.pc EXCEPT ![last] = "updating"],
                 deq |-> Append(s.deq, last)])
    ELSE s

\* processVideoQueue: while (videoQueue.length > 0 && activeJobs < MAX_CONCURRENT_JOBS)
\* shift a task, count it active and issue its `processing` write.
RECURSIVE ProcessVideoQueue(_)
ProcessVideoQueue(s) ==
    IF Len(s.q) > 0 /\ s.active < W
    THEN ProcessVideoQueue(
             [q |-> Tail(s.q), active |-> s.active + 1,
              pc |-> [s.pc EXCEPT ![Head(s.q)] = "updating"],
              deq |-> Append(s.deq, Head(s.q))])
    ELSE s

\* The scheduler state after processVideoQueue() ran on (q, active, pc).
Schedule(q, active, pc) ==
    ProcessVideoQueue([q |-> q, active |-> active, pc |-> pc, deq |-> dequeued])

ApplySchedule(s) ==
    /\ videoQueue' = s.q
    /\ activeJobs' = s.active
    /\ vpc' = s.pc
    /\ dequeued' = s.deq

\* ------------------------------------------------------------- quota gate
\* checkVideoLimit: estimatedDuration = max(text.length * 0.001, 0.5) minutes.
VideoEstimate(text) == Max(IF text.len > 0 THEN text.len ELSE 0, 500)

\* checkVideoLimit with the quota test dropped: no request would exceed the limit.
WouldExceedVideoLimitNever(req) == FALSE

\* checkVideoLimit: wouldExceedLimit = currentUsage + estimatedDuration > monthlyLimit.
WouldExceedVideoLimit(req) == videoUsed + VideoEstimate(req.text) > videoLimit

\* checkAudioLimit: wouldExceedLimit = currentUsage + 1 > monthlyLimit.
WouldExceedAudioLimit(req) == audioUsed + 1000 > audioLimit

\* req.usageInfo, set by checkVideoLimit once it has read the profile.
VideoUsageInfo(req) ==
    IF req.user = NoUser \/ req.profileError THEN NoUsageInfo
    ELSE [resource |-> "video", requested |-> VideoEstimate(req.text)]

\* req.audioUsageInfo, set by checkAudioLimit once it has read the profile.
AudioUsageInfo(req) ==
    IF req.user = NoUser \/ req.profileError THEN NoUsageInfo
    ELSE [resource |-> "audio", requested |-> 1000]

\* authenticateJWT and checkVideoLimit: the status sent, 0 when next() is called.
CheckVideoLimit(req) ==
    IF req.user = NoUser THEN 401
    ELSE IF req.profileError THEN 500
    ELSE IF WouldExceedVideoLimit(req) THEN 403
    ELSE 0

\* authenticateJWT and checkAudioLimit: the status sent, 0 when next() is called.
CheckAudioLimit(req) ==
    IF req.user = NoUser THEN 401
    ELSE IF req.profileError THEN 500
    ELSE IF WouldExceedAudioLimit(req) THEN 403
    ELSE 0

\* generateVideo, the checks made before the insert; 0: none failed.
VideoValidation(req) ==
    IF req.inputType = "script" /\ Blank(req.text) THEN 400
    ELSE IF req.inputType = "audio" /\ ~req.audioUrl THEN 400
    ELSE IF req.avatarId = NoAvatar THEN 400
    ELSE IF req.user = NoUser THEN 401
    ELSE IF WouldExceedVideoLimit(req) THEN 403
    ELSE IF Truthy(req.text) /\ req.text.trimLen > MaxVideoTextChars THEN 400
    ELSE IF ~AvatarRow(req.avatarId).found THEN 404
    ELSE IF req.inputType = "script" /\ ~AvatarRow(req.avatarId).voice_url THEN 400
    ELSE 0

\* The row generateVideo inserts.
NewVideoRow(req) ==
    [status |-> "queued", url |-> EmptyUrl, error_message |-> "null", progress |-> 0,
     input_type |-> IF req.inputType = "undefined" THEN "script" ELSE req.inputType,
     prompt |-> IF Truthy(req.text) THEN req.text ELSE NoText,
     user_id |-> req.user, avatar_id |-> req.avatarId]

\* The task generateVideo pushes.
NewVideoTask(req) ==
    [userId |-> req.user, avatarId |-> req.avatarId,
     text |-> IF Truthy(req.text) THEN req.text ELSE NoText,
     quality |-> req.quality, audioUrl |-> req.audioUrl, inputType |-> req.inputType]

\* POST /api/video-generation/generate: authenticateJWT, checkVideoLimit, generateVideo.
GenerateVideo(req) ==
    LET gate == CheckVideoLimit(req)
        bad == VideoValidation(req)
        id == NextVideoId
    IN IF gate # 0
       THEN /\ res' = Response(gate, VideoUsageInfo(req))
            /\ UNCHANGED <<videoVars, storage, uploaded, videoUsed, ledger>>
       ELSE IF bad # 0
       THEN /\ res' = Response(bad, VideoUsageInfo(req))
            /\ UNCHANGED <<videoVars, storage, uploaded, videoUsed, ledger>>
       ELSE IF req.insertError
       THEN /\ res' = Response(500, VideoUsageInfo(req))
            /\ UNCHANGED <<videoVars, storage, uploaded, videoUsed, ledger>>
       ELSE /\ id \in VideoIds
            /\ vrow' = [vrow EXCEPT ![id] = NewVideoRow(req)]
            /\ vtask' = [vtask EXCEPT ![id] = NewVideoTask(req)]
            /\ ApplySchedule(Schedule(Append(videoQueue, id), activeJobs,
                                      [vpc EXCEPT ![id] = "queued"]))
            /\ res' = Response(200, VideoUsageInfo(req))
            /\ UNCHANGED <<attempts, tempBlob, usageRead, started, released,
                           exitPath, commits, storage, uploaded, videoUsed, ledger>>

\* ------------------------------------------------------------ video runner
\* _pollVideoCompletion: maxAttempts = quality === "high" ? 240 : 120, scaled to
\* the bound MaxAttempts with the ratio kept.
MaxAttemptsFor(quality) == IF quality = "high" THEN 2 * MaxAttempts ELSE MaxAttempts

\* _pollVideoCompletion: estimatedDuration = max(0.5, (prompt?.length || 60) * 0.01).
VideoMinutes(text) == Max(500, 10 * (IF text.len > 0 THEN text.len ELSE DefaultPromptLen))

\* The update written when a runner or the poller records a failure.
FailedRow(row, message, progress) ==
    [row EXCEPT !.status = "failed", !.error_message = message, !.progress = progress]

\* .finally of a dispatch: activeJobs--; processVideoQueue().
ReleaseSlot(j, pc) ==
    /\ released' = [released EXCEPT ![j] = @ + 1]
    /\ ApplySchedule(Schedule(videoQueue, activeJobs - 1, pc))
    /\ vtask' = [vtask EXCEPT ![j] = NoVideoTask]
    /\ tempBlob' = [tempBlob EXCEPT ![j] = FALSE]

\* .update(...).eq("id", id): the update of a row that is gone matches nothing.
Matched(j, updated) == IF vrow[j].status = "absent" THEN vrow ELSE updated

\* The `processing` write resolved: .then() logs and calls processVideoGeneration,
\* which runs to its first await.
RunnerStart(j) ==
    /\ vpc[j] = "updating"
    /\ vrow' = Matched(j, [vrow EXCEPT ![j].status = "processing", ![j].progress = 20])
    /\ started' = [highest |-> Max(started.highest, j),
                   outOfOrder |-> started.outOfOrder \/ j < started.highest]
    /\ IF vtask[j].inputType = "script" /\ Truthy(vtask[j].text)
       THEN /\ vpc' = [vpc EXCEPT ![j] = "synth"]
            /\ UNCHANGED exitPath
       ELSE IF ~vtask[j].audioUrl
       THEN /\ vpc' = [vpc EXCEPT ![j] = "catch"]
            /\ exitPath' = [exitPath EXCEPT ![j] = "missing_audio"]
       ELSE /\ vpc' = [vpc EXCEPT ![j] = "enqueue"]
            /\ UNCHANGED exitPath
    /\ res' = NoResponse
    /\ UNCHANGED <<videoQueue, activeJobs, vtask, attempts, tempBlob, usageRead,
                   dequeued, released, commits, storage, uploaded, videoUsed, ledger>>

\* The `processing` write rejected: the outer .catch builds a `failed` update that
\* is neither awaited nor given a then(), so the request is never sent (a query
\* builder runs when its then() is called); activeJobs--; processVideoQueue().
ProcessingWriteRejected(j) ==
    /\ vpc[j] = "updating"
    /\ exitPath' = [exitPath EXCEPT ![j] = "processing_write_rejected"]
    /\ ReleaseSlot(j, [vpc EXCEPT ![j] = "done"])
    /\ res' = NoResponse
    /\ UNCHANGED <<vrow, attempts, usageRead, started, commits,
                   storage, uploaded, videoUsed, ledger>>

\* processVideoGeneration step 1: POST generate-audio, upload under temp_audio/.
SynthAudio(j, outcome) ==
    /\ vpc[j] = "synth"
    /\ IF outcome = "ok"
       THEN /\ storage' = storage \cup {TempAudioKey(vtask[j].userId, j)}
            /\ uploaded' = uploaded \cup {TempAudioKey(vtask[j].userId, j)}
            /\ tempBlob' = [tempBlob EXCEPT ![j] = TRUE]
            /\ vpc' = [vpc EXCEPT ![j] = "enqueue"]
            /\ UNCHANGED exitPath
       ELSE /\ vpc' = [vpc EXCEPT ![j] = "catch"]
            /\ exitPath' = [exitPath EXCEPT ![j] = "synth_failed"]
            /\ UNCHANGED <<storage, uploaded, tempBlob>>
    /\ res' = NoResponse
    /\ UNCHANGED <<videoQueue, activeJobs, vtask, vrow, attempts, usageRead,
                   dequeued, started, released, commits, videoUsed, ledger>>

\* processVideoGeneration step 2: progress 50, POST generate-video, task id, progress 70.
EnqueueVideo(j, outcome) ==
    /\ vpc[j] = "enqueue"
    /\ IF outcome = "ok"
       THEN /\ vrow' = Matched(j, [vrow EXCEPT ![j].progress = 70])
            /\ vpc' = [vpc EXCEPT ![j] = "poll"]
            /\ UNCHANGED exitPath
       ELSE /\ vrow' = Matched(j, [vrow EXCEPT ![j].progress = 50])
            /\ vpc' = [vpc EXCEPT ![j] = "catch"]
            /\ exitPath' = [exitPath EXCEPT ![j] = outcome]
    /\ res' = NoResponse
    /\ UNCHANGED <<videoQueue, activeJobs, vtask, attempts, tempBlob, usageRead,
                   dequeued, started, released, commits, storage, uploaded,
                   videoUsed, ledger>>

\* What the poller's try block throws on.
PollThrows == {"upload_error", "json_failed", "fetch_error"}
PollOutcomes == {"mp4", "mp4_empty", "json_processing", "not_found", "http_error"}
                    \cup PollThrows

\* The poller's catch block with the attempt test dropped.
PollCatchWritesAlways(a, max) == TRUE

\* The poller's catch block: if (attempts >= maxAttempts) write status failed.
PollCatchWrites(a, max) == a >= max

\* The poller's upload-error test dropped: an upload that failed counts as stored.
UploadStoredAlways(outcome) == outcome \in {"mp4", "upload_error"}

\* The poller without its test for a 0-byte body: an empty download is stored.
UploadStoredEmpty(outcome) == outcome \in {"mp4", "mp4_empty"}

\* if (videoUploadError) throw: the row is completed only after a stored upload.
UploadStored(outcome) == outcome = "mp4"

\* The test after the loop with its condition dropped: the timeout write always runs.
AfterPollAlwaysTimedOut(videoCompleted) == "timed_out"

\* After the loop: if (!videoCompleted) write failed, else return to the runner.
AfterPoll(videoCompleted) == IF ~videoCompleted THEN "timed_out" ELSE "return"

\* One iteration of the while loop of _pollVideoCompletion.
PollAttempt(j, outcome) ==
    LET a == attempts[j] + 1
        max == MaxAttemptsFor(vtask[j].quality)
        key == VideoKey(j, vtask[j].quality)
    IN /\ vpc[j] = "poll"
       /\ attempts' = [attempts EXCEPT ![j] =
                          IF ~UploadStored(outcome) /\ a < max THEN a ELSE 0]
       /\ IF UploadStored(outcome)
          THEN /\ storage' = IF outcome = "mp4" THEN storage \cup {key} ELSE storage
               /\ uploaded' = IF outcome = "mp4" THEN uploaded \cup {key} ELSE uploaded
               /\ vrow' = Matched(j, [vrow EXCEPT ![j].status = "completed",
                                                  ![j].url = PublicUrl(key),
                                                  ![j].progress = 100])
               /\ commits' = [commits EXCEPT ![j] = @ + 1]
               /\ vpc' = [vpc EXCEPT ![j] = "usage_read"]
               /\ exitPath' = [exitPath EXCEPT ![j] = "completed"]
          ELSE /\ vrow' = IF outcome \in PollThrows /\ PollCatchWrites(a, max)
                          THEN Matched(j, [vrow EXCEPT ![j].status = "failed",
                                                       ![j].error_message = outcome])
                          ELSE vrow
               /\ vpc' = [vpc EXCEPT ![j] = IF a < max THEN "poll" ELSE AfterPoll(FALSE)]
               /\ exitPath' = [exitPath EXCEPT ![j] =
                                  IF a < max THEN @
                                  ELSE IF outcome \in PollThrows THEN "poll_failed"
                                  ELSE "poll_timeout"]
               /\ UNCHANGED <<storage, uploaded, commits>>
       /\ res' = NoResponse
       /\ UNCHANGED <<videoQueue, activeJobs, vtask, tempBlob, usageRead, dequeued,
                      started, released, videoUsed, ledger>>

\* After the loop: if (!videoCompleted) write failed, "Video generation timed out".
PollTimedOut(j) ==
    /\ vpc[j] = "timed_out"
    /\ vrow' = Matched(j, [vrow EXCEPT ![j].status = "failed",
                                       ![j].error_message = "timed_out"])
    /\ vpc' = [vpc EXCEPT ![j] = "return"]
    /\ res' = NoResponse
    /\ UNCHANGED <<videoQueue, activeJobs, vtask, attempts, tempBlob, usageRead,
                   dequeued, started, released, exitPath, commits, storage, uploaded,
                   videoUsed, ledger>>

\* updateVideoUsage, first await: select the counter; on fetchError return.
\* Its return sets videoCompleted and ends the loop.
VideoUsageRead(j, ok) ==
    /\ vpc[j] = "usage_read"
    /\ IF ok
       THEN /\ usageRead' = [usageRead EXCEPT ![j] = videoUsed]
            /\ vpc' = [vpc EXCEPT ![j] = "usage_write"]
       ELSE /\ vpc' = [vpc EXCEPT ![j] = AfterPoll(TRUE)]
            /\ UNCHANGED usageRead
    /\ res' = NoResponse
    /\ UNCHANGED <<videoQueue, activeJobs, vtask, vrow, attempts, tempBlob, dequeued,
                   started, released, exitPath, commits, storage, uploaded,
                   videoUsed, ledger>>

\* updateVideoUsage, second await: update the counter to currentUsage + duration.
VideoUsageWrite(j, ok) ==
    /\ vpc[j] = "usage_write"
    /\ IF ok
       THEN /\ videoUsed' = usageRead[j] + VideoMinutes(vtask[j].text)
            /\ ledger' = ledger + VideoMinutes(vtask[j].text)
       ELSE UNCHANGED <<videoUsed, ledger>>
    /\ usageRead' = [usageRead EXCEPT ![j] = 0]
    /\ vpc' = [vpc EXCEPT ![j] = AfterPoll(TRUE)]
    /\ res' = NoResponse
    /\ UNCHANGED <<videoQueue, activeJobs, vtask, vrow, attempts, tempBlob,
                   dequeued, started, released, exitPath, commits, storage, uploaded>>

\* (When a chain ends its task object and the locals of its calls are unreachable:
\* ReleaseSlot, the poller's exit and updateVideoUsage's return reset them.)
\* processVideoGeneration step 4 and the dispatch's .finally: the poller returned,
\* the temp audio is removed if this runner uploaded one, the slot is released.
RunnerReturn(j) ==
    /\ vpc[j] = "return"
    /\ storage' = IF tempBlob[j] THEN storage \ {TempAudioKey(vtask[j].userId, j)}
                  ELSE storage
    /\ ReleaseSlot(j, [vpc EXCEPT ![j] = "done"])
    /\ res' = NoResponse
    /\ UNCHANGED <<vrow, attempts, usageRead, started, exitPath,
                   commits, uploaded, videoUsed, ledger>>

\* The runner threw: .catch writes failed with the error's message and progress 0,
\* then .finally releases the slot.
RunnerCatch(j) ==
    /\ vpc[j] = "catch"
    /\ vrow' = Matched(j, [vrow EXCEPT ![j] = FailedRow(@, exitPath[j], 0)])
    /\ ReleaseSlot(j, [vpc EXCEPT ![j] = "done"])
    /\ res' = NoResponse
    /\ UNCHANGED <<attempts, usageRead, started, exitPath, commits,
                   storage, uploaded, videoUsed, ledger>>

\* -------------------------------------------------------------- audio worker
\* generateAudio without its length test.
AudioValidationNoLength(req) ==
    IF Blank(req.text) THEN 400
    ELSE IF req.voiceId = NoAvatar THEN 400
    ELSE IF req.user = NoUser THEN 401
    ELSE IF WouldExceedAudioLimit(req) THEN 403
    ELSE 0

\* generateAudio, the checks made before the insert; 0: none failed.
AudioValidation(req) ==
    IF Blank(req.text) THEN 400
    ELSE IF req.voiceId = NoAvatar THEN 400
    ELSE IF req.user = NoUser THEN 401
    ELSE IF WouldExceedAudioLimit(req) THEN 403
    ELSE IF req.text.trimLen > MaxAudioTextChars THEN 400
    ELSE 0

\* text.trim(): the text without its leading and trailing white space.
TrimText(t) == [t EXCEPT !.len = t.trimLen]

NewAudioRow(req) ==
    [status |-> "queued", url |-> EmptyUrl, error_message |-> "null", progress |-> 0,
     input_type |-> "null", prompt |-> TrimText(req.text), user_id |-> req.user,
     avatar_id |-> req.voiceId]

NewAudioTask(req) ==
    [userId |-> req.user, voiceId |-> req.voiceId, text |-> TrimText(req.text),
     chunks |-> req.chunks]

\* processQueue with an if in place of its while: one task per call.
ProcessQueueOnce(q, pc) ==
    IF Len(q) > 0 /\ ~isProcessing
    THEN /\ processingQueue' = Tail(q)
         /\ apc' = [pc EXCEPT ![Head(q)] = "updating"]
         /\ adequeued' = Append(adequeued, Head(q))
         /\ isProcessing' = TRUE
    ELSE /\ processingQueue' = q
         /\ apc' = pc
         /\ adequeued' = adequeued
         /\ isProcessing' = FALSE

\* processQueue, the head of its while loop: shift the next task and issue its
\* `processing` write, or leave the loop and clear isProcessing.
ProcessQueueNext(q, pc) ==
    IF Len(q) > 0
    THEN /\ processingQueue' = Tail(q)
         /\ apc' = [pc EXCEPT ![Head(q)] = "updating"]
         /\ adequeued' = Append(adequeued, Head(q))
         /\ isProcessing' = TRUE
    ELSE /\ processingQueue' = q
         /\ apc' = pc
         /\ adequeued' = adequeued
         /\ isProcessing' = FALSE

\* POST /api/audio-generation/generate: authenticateJWT, checkAudioLimit, generateAudio.
GenerateAudio(req) ==
    LET gate == CheckAudioLimit(req)
        bad == AudioValidation(req)
        id == NextAudioId
    IN IF gate # 0
       THEN /\ res' = Response(gate, AudioUsageInfo(req))
            /\ UNCHANGED <<audioVars, storage, uploaded, audioUsed>>
       ELSE IF bad # 0
       THEN /\ res' = Response(bad, AudioUsageInfo(req))
            /\ UNCHANGED <<audioVars, storage, uploaded, audioUsed>>
       ELSE IF req.insertError
       THEN /\ res' = Response(500, AudioUsageInfo(req))
            /\ UNCHANGED <<audioVars, storage, uploaded, audioUsed>>
       ELSE /\ id \in AudioIds
            /\ arow' = [arow EXCEPT ![id] = NewAudioRow(req)]
            /\ atask' = [atask EXCEPT ![id] = NewAudioTask(req)]
            /\ IF ~isProcessing
               THEN ProcessQueueNext(Append(processingQueue, id),
                                     [apc EXCEPT ![id] = "queued"])
               ELSE /\ processingQueue' = Append(processingQueue, id)
                    /\ apc' = [apc EXCEPT ![id] = "queued"]
                    /\ UNCHANGED <<adequeued, isProcessing>>
            /\ res' = Response(200, AudioUsageInfo(req))
            /\ UNCHANGED <<chunkIdx, audioRead, acommits, storage, uploaded, audioUsed>>

\* processQueue: the `processing` write, the voice lookup and the chunk plan.
AudioStart(j, outcome) ==
    /\ apc[j] = "updating"
    /\ arow' = IF outcome = "write_rejected" THEN arow
               ELSE [arow EXCEPT ![j].status = "processing"]
    /\ apc' = [apc EXCEPT ![j] =
                  IF outcome = "ok" /\ atask[j].chunks > 0 THEN "chunk" ELSE "catch"]
    /\ res' = NoResponse
    /\ UNCHANGED <<processingQueue, isProcessing, atask, chunkIdx, audioRead,
                   adequeued, acommits, storage, uploaded, audioUsed>>

\* processQueue: one POST generate-audio of the chunk loop.
AudioChunk(j, outcome) ==
    /\ apc[j] = "chunk"
    /\ IF outcome = "ok"
       THEN /\ chunkIdx' = [chunkIdx EXCEPT ![j] = @ + 1]
            /\ apc' = [apc EXCEPT ![j] =
                          IF chunkIdx[j] < atask[j].chunks - 1 THEN "pause"
                          ELSE "assemble"]
       ELSE /\ apc' = [apc EXCEPT ![j] = "catch"]
            /\ UNCHANGED chunkIdx
    /\ res' = NoResponse
    /\ UNCHANGED <<processingQueue, isProcessing, atask, arow, audioRead, adequeued,
                   acommits, storage, uploaded, audioUsed>>

\* processQueue: the 3 s wait between two chunks is over.
AudioPause(j) ==
    /\ apc[j] = "pause"
    /\ apc' = [apc EXCEPT ![j] = "chunk"]
    /\ res' = NoResponse
    /\ UNCHANGED <<processingQueue, isProcessing, atask, arow, chunkIdx, audioRead,
                   adequeued, acommits, storage, uploaded, audioUsed>>

\* if (uploadError) throw: the row is completed only after a stored upload.
AudioStored(outcome) == outcome = "ok"

\* processQueue: concatenate (more than one chunk), upload under generated_audio/,
\* write completed, call updateAudioUsage.
AudioAssemble(j, outcome) ==
    LET key == AudioKey(atask[j].userId, j)
    IN /\ apc[j] = "assemble"
       /\ outcome = "concat_error" => atask[j].chunks > 1
       /\ IF outcome # "concat_error" /\ AudioStored(outcome)
          THEN /\ storage' = IF outcome = "ok" THEN storage \cup {key} ELSE storage
               /\ uploaded' = IF outcome = "ok" THEN uploaded \cup {key} ELSE uploaded
               /\ arow' = [arow EXCEPT ![j].status = "completed",
                                       ![j].url = PublicUrl(key),
                                       ![j].error_message = "null"]
               /\ acommits' = [acommits EXCEPT ![j] = @ + 1]
               /\ apc' = [apc EXCEPT ![j] = "usage_read"]
          ELSE /\ apc' = [apc EXCEPT ![j] = "catch"]
               /\ UNCHANGED <<storage, uploaded, arow, acommits>>
       /\ res' = NoResponse
       /\ UNCHANGED <<processingQueue, isProcessing, atask, chunkIdx, audioRead,
                      adequeued, audioUsed>>

\* estimatedDuration = max(0.5, words / 150.0) minutes.
AudioMinutes(text) == Max(500, (1000 * text.words) \div 150)

\* updateAudioUsage, first await: select the counter; on fetchError return.
AudioUsageRead(j, ok) ==
    /\ apc[j] = "usage_read"
    /\ IF ok
       THEN /\ audioRead' = [audioRead EXCEPT ![j] = audioUsed]
            /\ apc' = [apc EXCEPT ![j] = "usage_write"]
            /\ UNCHANGED <<processingQueue, isProcessing, adequeued>>
       ELSE /\ ProcessQueueNext(processingQueue, [apc EXCEPT ![j] = "done"])
            /\ UNCHANGED audioRead
    /\ res' = NoResponse
    /\ UNCHANGED <<atask, arow, chunkIdx, acommits, storage, uploaded, audioUsed>>

\* updateAudioUsage, second await: update the counter; then the loop goes on.
AudioUsageWrite(j, ok) ==
    /\ apc[j] = "usage_write"
    /\ audioUsed' = IF ok THEN audioRead[j] + AudioMinutes(atask[j].text) ELSE audioUsed
    /\ ProcessQueueNext(processingQueue, [apc EXCEPT ![j] = "done"])
    /\ res' = NoResponse
    /\ UNCHANGED <<atask, arow, chunkIdx, audioRead, acommits, storage, uploaded>>

\* processQueue with a catch block that logs the error and writes nothing.
AudioCatchSilent(j) ==
    /\ apc[j] = "catch"
    /\ ProcessQueueNext(processingQueue, [apc EXCEPT ![j] = "done"])
    /\ res' = NoResponse
    /\ UNCHANGED <<arow, atask, chunkIdx, audioRead, acommits, storage, uploaded,
                   audioUsed>>

\* processQueue, catch: write failed with the error's message; the loop goes on.
AudioCatch(j) ==
    /\ apc[j] = "catch"
    /\ arow' = [arow EXCEPT ![j].status = "failed", ![j].error_message = "error"]
    /\ ProcessQueueNext(processingQueue, [apc EXCEPT ![j] = "done"])
    /\ res' = NoResponse
    /\ UNCHANGED <<atask, chunkIdx, audioRead, acommits, storage, uploaded, audioUsed>>

\* ------------------------------------------------------------ specifications
\* Request bodies the job specifications submit: a script with text for an avatar
\* with a voice, an uploaded audio, and a text with neither input type nor audio
\* (accepted by generateVideo; its runner finds no audio URL).
ScriptRequest ==
    [user |-> User, avatarId |-> "A1", quality |-> "fast", profileError |-> FALSE,
     insertError |-> FALSE,
     inputType |-> "script", text |-> ShortText, audioUrl |-> FALSE]
AudioInputRequest ==
    [user |-> User, avatarId |-> "A1", quality |-> "fast", profileError |-> FALSE,
     insertError |-> FALSE,
     inputType |-> "audio", text |-> NoText, audioUrl |-> TRUE]
UntypedRequest ==
    [user |-> User, avatarId |-> "A1", quality |-> "fast", profileError |-> FALSE,
     insertError |-> FALSE,
     inputType |-> "undefined", text |-> ShortText, audioUrl |-> FALSE]
RunVideoRequests == {ScriptRequest, AudioInputRequest, UntypedRequest}

RunAudioRequests ==
    [user : {User}, voiceId : {"A1"}, profileError : {FALSE}, insertError : {FALSE},
     text : {ShortText}, chunks : 0..MaxChunks]

\* The request bodies the admission specification submits: every combination of
\* avatar, input type, text and audio URL for an authenticated caller, and for an
\* unauthenticated caller, a failing profile read and a failing insert the
\* combinations that reach each check.
AllVideoRequests ==
    [user : {User}, avatarId : {"A1", "A2", "A0", NoAvatar},
     quality : {"fast"}, profileError : {FALSE}, insertError : {FALSE},
     inputType : {"script", "audio", "undefined"},
     text : {NoText, BlankText, ShortText, EdgeVideoText, LongVideoText},
     audioUrl : {TRUE}]
    \cup
    [user : {User, NoUser}, avatarId : {"A1", NoAvatar},
     quality : {"fast"}, profileError : {FALSE}, insertError : {FALSE},
     inputType : {"script", "audio", "undefined"},
     text : {NoText, ShortText}, audioUrl : BOOLEAN]
    \cup
    [user : {User}, avatarId : {"A1"},
     quality : {"fast"}, profileError : BOOLEAN, insertError : BOOLEAN,
     inputType : {"script", "audio", "undefined"},
     text : {ShortText}, audioUrl : {TRUE}]

AllAudioRequests ==
    [user : {User}, voiceId : {"A1", NoAvatar}, profileError : BOOLEAN,
     insertError : BOOLEAN,
     text : {NoText, BlankText, ShortText, ExactAudioText, EdgeAudioText,
             LongAudioText},
     chunks : {1}]
    \cup
    [user : {NoUser}, voiceId : {"A1", NoAvatar}, profileError : {FALSE},
     insertError : {FALSE},
     text : {NoText, ShortText}, chunks : {1}]

\* Monthly limits and usages a profile row may hold, in thousandths of a minute.
LimitSamples == {0, 1000}
UsedSamples == {0, 500, 600}
AmpleLimit == 100000

\* No chat session and no call of the chunker: the state of these parts in the
\* specifications of the generation jobs.
NoTimer == [state |-> "null", due |-> 0]
NoFrames == [ready |-> 0, early |-> FALSE, error |-> 0, expired |-> FALSE,
             usage |-> 0, endStream |-> 0]
NoSignals == [video |-> FALSE, voice |-> 0]
NoStop == [seen |-> FALSE, voiceOpen |-> FALSE, videoOpen |-> FALSE,
           toVoice |-> FALSE, toVideo |-> FALSE, speechEnd |-> FALSE]
NotRun == << <<"not run">> >>

ChatFields ==
    /\ cpc = "entry"
    /\ hpc = "idle"
    /\ ws = "open"
    /\ now = 0
    /\ conversationStartTime = <<>>
    /\ connectionTimeout = NoTimer
    /\ isVideoReady = FALSE
    /\ isVoiceReady = FALSE
    /\ isFullyConnected = FALSE
    /\ videoServiceWs = "null"
    /\ voiceServiceWs = "null"
    /\ streamOpen = FALSE
    /\ durationMs = 0
    /\ tpc = <<>>
    /\ closedAt = 0
    /\ frames = NoFrames
    /\ signalled = NoSignals
    /\ llmCalls = <<>>
    /\ spoken = <<>>
    /\ lastStop = NoStop
    /\ replies = <<>>
    /\ said = <<>>
    /\ transcript = <<>>

NoChat == variant = "none" /\ ChatFields
NoChunking == srcText = <<>> /\ maxTokens = 0 /\ finalChunks = NotRun
NoVerdict == [token |-> <<>>, secret |-> "none", timestamp |-> -1, ok |-> FALSE]
NoConcat == [pc |-> "idle", n |-> 0, unlinkFailed |-> FALSE]
NoDelete == [pc |-> "idle", kind |-> "none", id |-> 0, user |-> NoUser, url |-> NoUrl]
NoRecord ==
    /\ conversation = "none"
    /\ chat_history = <<>>
    /\ voiceErrors = 0

OtherSide ==
    /\ del = [d \in 1..MaxDeletes |-> NoDelete]
    /\ deleted = {}
    /\ delivered = [j \in VideoIds |-> <<>>]
    /\ clock = FirstSecond
    /\ tokens = {}
    /\ verdict = NoVerdict
    /\ tempDirFiles = {}
    /\ concat = NoConcat
    /\ arrivals = <<>>
    /\ toClient = <<>>
    /\ toVideo = <<>>

NoCall == [pc |-> "idle", shared |-> TRUE, local |-> <<>>]
NoContents == <<<<"none", 0>>>>
SessionKinds == {"voice", "video"}

NoGemini ==
    /\ chatSessions = <<>>
    /\ contents = NoContents
    /\ gcall = NoCall
    /\ gsession = [kind |-> "voice", turns |-> 0, closed |-> FALSE]

NoSide == OtherSide /\ NoRecord /\ NoGemini

EmptyStore ==
    /\ vrow = [j \in VideoIds |-> NoRow]
    /\ arow = [j \in AudioIds |-> NoRow]
    /\ storage = {}

WorkerFields ==
    /\ videoQueue = <<>>
    /\ activeJobs = 0
    /\ vtask = [j \in VideoIds |-> NoVideoTask]
    /\ vpc = [j \in VideoIds |-> "none"]
    /\ attempts = [j \in VideoIds |-> 0]
    /\ tempBlob = [j \in VideoIds |-> FALSE]
    /\ usageRead = [j \in VideoIds |-> 0]
    /\ processingQueue = <<>>
    /\ isProcessing = FALSE
    /\ atask = [j \in AudioIds |-> NoAudioTask]
    /\ apc = [j \in AudioIds |-> "none"]
    /\ chunkIdx = [j \in AudioIds |-> 0]
    /\ audioRead = [j \in AudioIds |-> 0]
    /\ res = NoResponse
    /\ dequeued = <<>>
    /\ started = [highest |-> 0, outOfOrder |-> FALSE]
    /\ adequeued = <<>>
    /\ released = [j \in VideoIds |-> 0]
    /\ exitPath = [j \in VideoIds |-> "none"]
    /\ uploaded = {}
    /\ commits = [j \in VideoIds |-> 0]
    /\ acommits = [j \in AudioIds |-> 0]
    /\ ledger = 0

JobFields == EmptyStore /\ WorkerFields

InitJobs == NoChat /\ NoChunking /\ NoSide /\ JobFields

Init ==
    /\ W \in 1..MaxWorkers
    /\ videoLimit = AmpleLimit
    /\ audioLimit = AmpleLimit
    /\ videoUsed = 0
    /\ audioUsed = 0
    /\ InitJobs

audioSide == <<audioVars, audioUsed>>
videoSide == <<videoVars, videoUsed, ledger>>
config == <<W, videoLimit, audioLimit>>

\* The two controllers share no state: their queues, tables, counters and key
\* prefixes are disjoint. One behaviour exercises one of them.
NoVideoYet == NextVideoId = 1
NoAudioYet == NextAudioId = 1

VideoStep ==
    \/ \E j \in VideoIds : RunnerStart(j)
    \/ \E j \in VideoIds : ProcessingWriteRejected(j)
    \/ \E j \in VideoIds, o \in {"ok", "voice_error", "upload_error"} : SynthAudio(j, o)
    \/ \E j \in VideoIds, o \in {"ok", "enqueue_failed", "no_task_id"} : EnqueueVideo(j, o)
    \/ \E j \in VideoIds, o \in PollOutcomes : PollAttempt(j, o)
    \/ \E j \in VideoIds : PollTimedOut(j)
    \/ \E j \in VideoIds, ok \in BOOLEAN : VideoUsageRead(j, ok)
    \/ \E j \in VideoIds, ok \in BOOLEAN : VideoUsageWrite(j, ok)
    \/ \E j \in VideoIds : RunnerReturn(j)
    \/ \E j \in VideoIds : RunnerCatch(j)

AudioStep ==
    \/ \E j \in AudioIds, o \in {"ok", "write_rejected", "voice_missing"} : AudioStart(j, o)
    \/ \E j \in AudioIds, o \in {"ok", "http_error", "empty_body"} : AudioChunk(j, o)
    \/ \E j \in AudioIds : AudioPause(j)
    \/ \E j \in AudioIds, o \in {"ok", "concat_error", "upload_error"} : AudioAssemble(j, o)
    \/ \E j \in AudioIds, ok \in BOOLEAN : AudioUsageRead(j, ok)
    \/ \E j \in AudioIds, ok \in BOOLEAN : AudioUsageWrite(j, ok)
    \/ \E j \in AudioIds : AudioCatch(j)

VideoRun == NoAudioYet /\ VideoStep /\ UNCHANGED <<audioSide, config, chatVars, chunkVars, sideVars>>
AudioRun == NoVideoYet /\ AudioStep /\ UNCHANGED <<videoSide, config, chatVars, chunkVars, sideVars>>

VideoSubmit ==
    /\ NoAudioYet
    /\ NextVideoId <= MaxVideoJobs
    /\ \E req \in RunVideoRequests : GenerateVideo(req)
    /\ UNCHANGED <<audioSide, config, chatVars, chunkVars, sideVars>>

AudioSubmit ==
    /\ NoVideoYet
    /\ NextAudioId <= MaxAudioJobs
    /\ \E req \in RunAudioRequests : GenerateAudio(req)
    /\ UNCHANGED <<videoSide, config, chatVars, chunkVars, sideVars>>

Next == VideoSubmit \/ VideoRun \/ AudioSubmit \/ AudioRun

\* All requests, jobs and outcomes.
Spec == Init /\ [][Next]_vars

\* Every pending await settles: the steps of the runners are taken when enabled.
FairSpec == Spec /\ WF_vars(VideoRun) /\ WF_vars(AudioRun)

\* Ordering: more submissions per queue, and of each phase of a job one outcome
\* that ends it and one that lets it go on.
OrderVideoSubmit ==
    /\ NoAudioYet
    /\ NextVideoId <= MaxOrderJobs
    /\ GenerateVideo(AudioInputRequest)
    /\ UNCHANGED <<audioSide, config, chatVars, chunkVars, sideVars>>

OrderVideoRun ==
    /\ NoAudioYet
    /\ \/ \E j \in VideoIds : RunnerStart(j)
       \/ \E j \in VideoIds : ProcessingWriteRejected(j)
       \/ \E j \in VideoIds, o \in {"ok", "enqueue_failed"} : EnqueueVideo(j, o)
       \/ \E j \in VideoIds : PollAttempt(j, "mp4")
       \/ \E j \in VideoIds : VideoUsageWrite(j, TRUE)
       \/ \E j \in VideoIds : VideoUsageRead(j, TRUE)
       \/ \E j \in VideoIds : RunnerReturn(j)
       \/ \E j \in VideoIds : RunnerCatch(j)
    /\ UNCHANGED <<audioSide, config, chatVars, chunkVars, sideVars>>

OrderAudioSubmit ==
    /\ NoVideoYet
    /\ NextAudioId <= MaxOrderJobs
    /\ GenerateAudio([user |-> User, voiceId |-> "A1", profileError |-> FALSE,
                      insertError |-> FALSE,
                      text |-> ShortText, chunks |-> 1])
    /\ UNCHANGED <<videoSide, config, chatVars, chunkVars, sideVars>>

OrderAudioRun ==
    /\ NoVideoYet
    /\ \/ \E j \in AudioIds, o \in {"ok", "voice_missing"} : AudioStart(j, o)
       \/ \E j \in AudioIds : AudioChunk(j, "ok")
       \/ \E j \in AudioIds : AudioAssemble(j, "ok")
       \/ \E j \in AudioIds : AudioUsageRead(j, TRUE)
       \/ \E j \in AudioIds : AudioUsageWrite(j, TRUE)
       \/ \E j \in AudioIds : AudioCatch(j)
    /\ UNCHANGED <<videoSide, config, chatVars, chunkVars, sideVars>>

OrderNext == OrderVideoSubmit \/ OrderVideoRun \/ OrderAudioSubmit \/ OrderAudioRun

SpecOrder == Init /\ [][OrderNext]_vars

\* Admission: every shape of request against every sampled quota state; the
\* runners' steps are left out, the gate and the handlers read nothing they write
\* but the usage counters, which are sampled here.
InitAdmit ==
    /\ W = 1
    /\ \/ /\ videoLimit \in LimitSamples /\ videoUsed \in UsedSamples
          /\ audioLimit = AmpleLimit /\ audioUsed = 0
       \/ /\ audioLimit \in LimitSamples /\ audioUsed \in UsedSamples
          /\ videoLimit = AmpleLimit /\ videoUsed = 0
    /\ InitJobs

VideoAccepted(req) ==
    CheckVideoLimit(req) = 0 /\ VideoValidation(req) = 0 /\ ~req.insertError
AudioAccepted(req) ==
    CheckAudioLimit(req) = 0 /\ AudioValidation(req) = 0 /\ ~req.insertError

AdmitVideo ==
    /\ NoAudioYet
    /\ \E req \in AllVideoRequests :
          /\ VideoAccepted(req) => NextVideoId <= MaxAdmitRows
          /\ GenerateVideo(req)
    /\ UNCHANGED <<audioSide, config, chatVars, chunkVars, sideVars>>

AdmitAudio ==
    /\ NoVideoYet
    /\ \E req \in AllAudioRequests :
          /\ AudioAccepted(req) => NextAudioId <= MaxAdmitRows
          /\ GenerateAudio(req)
    /\ UNCHANGED <<videoSide, config, chatVars, chunkVars, sideVars>>

AdmitNext == AdmitVideo \/ AdmitAudio

SpecAdmit == InitAdmit /\ [][AdmitNext]_vars

\* ---------------------------------------------------------------- properties
Running == {j \in VideoIds : vpc[j] \notin {"none", "queued", "done"}}
Processing == {j \in VideoIds : vrow[j].status = "processing"}

\* C1: activeJobs is the number of video jobs processVideoQueue has dispatched and
\* whose runner has not finished; it is never negative and never greater than
\* MAX_CONCURRENT_JOBS, and at most MAX_CONCURRENT_JOBS rows are in `processing`.
C1_ActiveJobsBounded ==
    /\ activeJobs = Cardinality(Running)
    /\ activeJobs >= 0
    /\ activeJobs <= W
    /\ Cardinality(Processing) <= W

\* Every slot is taken by a job in `processing` while another job waits.
C1_Witness ==
    /\ activeJobs = W
    /\ Cardinality(Processing) = W
    /\ videoQueue # <<>>

Statuses == {"queued", "processing", "completed", "failed", "timed-out"}
Terminal == {"completed", "failed"}

\* C2: the status of every video and audio row is one of queued, processing,
\* completed, failed, timed-out, and no step changes the status of a row that is
\* completed or failed.
C2_StatusClosed ==
    /\ [](/\ \A j \in VideoIds : vrow[j].status \in Statuses \cup {"absent"}
          /\ \A j \in AudioIds : arow[j].status \in Statuses \cup {"absent"})
    /\ [][/\ \A j \in VideoIds :
                vrow[j].status \in Terminal => vrow'[j].status = vrow[j].status
          /\ \A j \in AudioIds :
                arow[j].status \in Terminal => arow'[j].status = arow[j].status]_vars

\* The poller's catch wrote failed on its last attempt and the write after the loop
\* is about to write failed again.
C2_Witness ==
    \E j \in VideoIds : vrow[j].status = "failed" /\ vpc[j] = "timed_out"

\* C3: every accepted job is eventually dispatched and its row eventually reaches
\* completed or failed.
C3_EveryJobTerminates ==
    /\ \A j \in VideoIds :
          (vrow[j].status = "queued") ~> (vrow[j].status \in Terminal)
    /\ \A j \in AudioIds :
          (arow[j].status = "queued") ~> (arow[j].status \in Terminal)

\* The first n job ids, in order (ids are given in the order generateVideo and
\* generateAudio push the tasks).
FirstIds(seq) == seq = [i \in 1..Len(seq) |-> i]

\* C4, as stated: of two jobs of one queue the one enqueued first is dequeued first
\* and its runner is started first, whatever MAX_CONCURRENT_JOBS is.
C4_StartInSubmitOrder ==
    /\ FirstIds(dequeued)
    /\ FirstIds(adequeued)
    /\ ~started.outOfOrder

\* C4, amended: jobs are dequeued in exactly the order they were enqueued, whatever
\* MAX_CONCURRENT_JOBS is; the runners that start do so in that order when
\* MAX_CONCURRENT_JOBS is 1.
C4_DequeueInSubmitOrder ==
    /\ FirstIds(dequeued)
    /\ FirstIds(adequeued)
    /\ W = 1 => ~started.outOfOrder

\* One worker, three jobs dequeued one after the other, two runners started, the
\* first job's `processing` write having been rejected.
C4_Witness ==
    /\ W = 1
    /\ Len(dequeued) >= 3
    /\ vrow[1].status = "queued"
    /\ vrow[2].status \notin {"absent", "queued"}
    /\ started.highest = 3

FailurePaths == {"processing_write_rejected", "missing_audio", "synth_failed",
                 "enqueue_failed", "no_task_id"}

\* C5: when a runner threw or the `processing` write was rejected, the row is
\* failed with an error message, the slot was released exactly once and the
\* scheduler has dispatched the next waiting job into it.
C5_FailureIsolated ==
    \A j \in VideoIds :
        (vpc[j] = "done" /\ exitPath[j] \in FailurePaths) =>
            /\ vrow[j].status = "failed"
            /\ vrow[j].error_message # "null"
            /\ released[j] = 1
            /\ videoQueue # <<>> => activeJobs = W

\* C6: a completed row's result URL is non-empty and is the public URL of a key
\* stored by a successful upload, under generated_videos/<job id>/ for a video
\* and under generated_audio/<owner>/ for an audio.
C6_CompletedHasStoredBlob ==
    /\ \A j \in VideoIds :
          vrow[j].status = "completed" =>
              /\ vrow[j].url \notin {NoUrl, EmptyUrl}
              /\ \E key \in uploaded :
                    /\ vrow[j].url = PublicUrl(key)
                    /\ key[1] = "generated_videos"
                    /\ key[2] = j
    /\ \A j \in AudioIds :
          arow[j].status = "completed" =>
              /\ arow[j].url \notin {NoUrl, EmptyUrl}
              /\ \E key \in uploaded :
                    /\ arow[j].url = PublicUrl(key)
                    /\ key[1] = "generated_audio"
                    /\ key[2] = arow[j].user_id

\* A completed video made from a script, its blob in the bucket.
C6_Witness ==
    \E j \in VideoIds :
        /\ vrow[j].status = "completed"
        /\ vrow[j].input_type = "script"
        /\ VideoKey(j, "fast") \in storage

\* C7: usage is committed at most once per job, and only for a job whose row is
\* completed (so never for a failed one), for video and for audio alike.
C7_CommitOncePerCompleted ==
    /\ \A j \in VideoIds :
          /\ commits[j] <= 1
          /\ commits[j] >= 1 => vrow[j].status = "completed"
    /\ \A j \in AudioIds :
          /\ acommits[j] <= 1
          /\ acommits[j] >= 1 => arow[j].status = "completed"

\* A video job that committed and finished, beside one that failed uncommitted.
C7_Witness ==
    \E j, k \in VideoIds :
        /\ commits[j] = 1 /\ vpc[j] = "done"
        /\ commits[k] = 0 /\ vpc[k] = "done" /\ vrow[k].status = "failed"

\* C8: once no commit is in progress, the stored video counter is its initial
\* value (0) plus the sum of the amounts of the commits that were written.
C8_NoCommitLost ==
    (\A j \in VideoIds : vpc[j] \notin {"usage_read", "usage_write"}) =>
        videoUsed = ledger

C10_TempAudioRemoved ==
    \A j \in VideoIds :
        (vpc[j] = "done" /\ TempAudioKey(User, j) \in uploaded) =>
            TempAudioKey(User, j) \notin storage

\* ------------------------------------------------------------ chat sessions
\* handleVideoChat exists twice: src/unnamed/part_013 ("mediator") waits for both
\* upstreams before it tells the client it is ready, src/ws/videoChatHandler.js
\* ("handler") waits for the voice upstream only and keeps a conversations row.
\* One action is one run of the function body, of a listener or of a timer
\* callback up to its next await. The clock is in milliseconds.
ClockStepMs == 5000     \* the clock advances in steps of this size
MaxClockMs == 35000     \* and stops here
MaxReadySignals == 2    \* "ready" messages the voice upstream sends

MediatorTimeoutMs == 20000
HandlerTimeoutMs == 30000
MinuteMs == 60000

Variants == {"mediator", "handler"}
TimeoutMs == IF variant = "mediator" THEN MediatorTimeoutMs ELSE HandlerTimeoutMs

\* durationMinutes > 0.1 in the mediator, durationMinutes > 0 in the handler
Billable(ms) == IF variant = "mediator" THEN ms * 10 > MinuteMs ELSE ms > 0

\* ws.close() on the client socket: the closing handshake starts
CloseClient(s) == IF s = "open" THEN "closing" ELSE s
\* ws.send(frame): the frame reaches the client of an open socket only
Sent(f, kind) == IF ws = "open" THEN [f EXCEPT ![kind] = @ + 1] ELSE f
\* clearTimeout(connectionTimeout)
ClearTimeout(t) == IF t.state = "armed" THEN [t EXCEPT !.state = "cleared"] ELSE t
\* upstream.close()
CloseUpstream(s) == IF s = "null" THEN s ELSE "closed"
\* if (upstream.readyState === WebSocket.OPEN) upstream.close()
CloseIfOpen(s) == IF s = "open" THEN "closed" ELSE s

turnVars == <<tpc, llmCalls, spoken, lastStop, replies, said, transcript>>
readyVars == <<isVideoReady, isVoiceReady, isFullyConnected, signalled>>
upstreamVars == <<videoServiceWs, voiceServiceWs, streamOpen>>
closeVars == <<hpc, durationMs, closedAt>>

\* The error frame, ws.close() and return of a failed initialisation. Nothing
\* the body opened or armed before is touched.
InitFailed ==
    /\ frames' = Sent(frames, "error")
    /\ ws' = CloseClient(ws)
    /\ cpc' = "returned"

\* lines 240-244 (mediator), 59-66 (handler), and the call of authenticateWebSocket
ChatEntry(paramsOk) ==
    /\ variant \in Variants
    /\ cpc = "entry"
    /\ IF paramsOk
         THEN cpc' = "auth" /\ UNCHANGED <<ws, frames>>
         ELSE InitFailed
    /\ UNCHANGED <<variant, now, conversationStartTime, connectionTimeout, readyVars,
                   upstreamVars, closeVars, turnVars>>

\* authenticateWebSocket settles
AuthDone(ok) ==
    /\ cpc = "auth"
    /\ IF ok
         THEN /\ conversationStartTime' = <<now>>
              /\ cpc' = IF variant = "mediator" THEN "avatar" ELSE "profile"
              /\ UNCHANGED <<ws, frames>>
         ELSE InitFailed /\ UNCHANGED conversationStartTime
    /\ UNCHANGED <<variant, now, connectionTimeout, readyVars, upstreamVars,
                   closeVars, turnVars>>

\* handler: the profile read settles; no minutes left ends the session
ProfileDone(o) ==
    /\ variant = "handler"
    /\ cpc = "profile"
    /\ IF o = "ok"
         THEN cpc' = "insert" /\ UNCHANGED <<ws, frames>>
         ELSE InitFailed
    /\ UNCHANGED <<variant, now, conversationStartTime, connectionTimeout, readyVars,
                   upstreamVars, closeVars, turnVars>>

\* handler: the insert of the conversations row settles
InsertDone(ok) ==
    /\ variant = "handler"
    /\ cpc = "insert"
    /\ IF ok
         THEN cpc' = "avatar" /\ UNCHANGED <<ws, frames>>
         ELSE InitFailed
    /\ UNCHANGED <<variant, now, conversationStartTime, connectionTimeout, readyVars,
                   upstreamVars, closeVars, turnVars>>

\* getAvatarPersonalityFromDB settles; with a complete avatar the watchdog is
\* armed and init-stream is fetched
AvatarDone(ok) ==
    /\ cpc = "avatar"
    /\ IF ok
         THEN /\ connectionTimeout' = [state |-> "armed", due |-> now + TimeoutMs]
              /\ cpc' = "initStream"
              /\ UNCHANGED <<ws, frames>>
         ELSE /\ UNCHANGED connectionTimeout
              /\ IF variant = "mediator"
                   THEN InitFailed
                   ELSE /\ frames' = Sent(frames, "error")
                        /\ cpc' = "markFailed"
                        /\ UNCHANGED ws
    /\ UNCHANGED <<variant, now, conversationStartTime, readyVars, upstreamVars,
                   closeVars, turnVars>>

\* fetch(init-stream) settles, and the rest of the body runs: the video socket,
\* the voice token and socket, the registration of the client's listeners.
\*   "refused"      the video service answers not-ok or the fetch rejects
\*   "voice_throws" createHmac or new WebSocket throws for the voice service
InitStreamDone(o) ==
    /\ cpc = "initStream"
    /\ CASE o = "ok" ->
              /\ streamOpen' = TRUE
              /\ videoServiceWs' = "connecting"
              /\ voiceServiceWs' = "connecting"
              /\ cpc' = "registered"
              /\ UNCHANGED <<ws, frames>>
         [] o = "refused" /\ variant = "mediator" ->
              /\ InitFailed
              /\ UNCHANGED upstreamVars
         [] o = "refused" /\ variant = "handler" ->
              /\ voiceServiceWs' = "connecting"
              /\ cpc' = "registered"
              /\ UNCHANGED <<ws, frames, videoServiceWs, streamOpen>>
         [] o = "voice_throws" ->
              /\ streamOpen' = TRUE
              /\ videoServiceWs' = "connecting"
              /\ UNCHANGED voiceServiceWs
              /\ IF variant = "mediator"
                   THEN InitFailed
                   ELSE /\ frames' = Sent(frames, "error")
                        /\ cpc' = "markFailed"
                        /\ UNCHANGED ws
    /\ UNCHANGED <<variant, now, conversationStartTime, connectionTimeout, readyVars,
                   closeVars, turnVars>>

\* handler: the update of the conversations row to failed settles
MarkFailedDone ==
    /\ cpc = "markFailed"
    /\ ws' = CloseClient(ws)
    /\ cpc' = "returned"
    /\ UNCHANGED <<variant, now, conversationStartTime, connectionTimeout, readyVars,
                   upstreamVars, closeVars, turnVars, frames>>

\* checkFullConnection, called with the readiness flags as just assigned
CheckFullConnection(videoReady, voiceReady) ==
    LET fires == videoReady /\ voiceReady /\ ~isFullyConnected
    IN  /\ isFullyConnected' = (isFullyConnected \/ fires)
        /\ connectionTimeout' = IF fires THEN ClearTimeout(connectionTimeout)
                                         ELSE connectionTimeout
        /\ frames' = IF fires /\ ws = "open"
                       THEN [frames EXCEPT !.ready = @ + 1,
                                           !.early = @ \/ ~(signalled'.video /\ signalled'.voice > 0)]
                       ELSE frames

\* videoServiceWs.onopen
VideoOpen ==
    /\ videoServiceWs = "connecting"
    /\ videoServiceWs' = "open"
    /\ signalled' = [signalled EXCEPT !.video = TRUE]
    /\ IF variant = "mediator"
         THEN /\ isVideoReady' = TRUE
              /\ CheckFullConnection(TRUE, isVoiceReady)
         ELSE UNCHANGED <<isVideoReady, isFullyConnected, connectionTimeout, frames>>
    /\ UNCHANGED <<variant, cpc, ws, now, conversationStartTime, isVoiceReady,
                   voiceServiceWs, streamOpen, closeVars, turnVars>>

\* voiceServiceWs.onopen: the init message goes out
VoiceOpen ==
    /\ voiceServiceWs = "connecting"
    /\ voiceServiceWs' = "open"
    /\ UNCHANGED <<variant, cpc, ws, now, conversationStartTime, connectionTimeout,
                   readyVars, videoServiceWs, streamOpen, closeVars, turnVars, frames>>

\* voiceServiceWs.onmessage with a message of type "ready"
VoiceReady ==
    /\ voiceServiceWs = "open"
    /\ signalled.voice < MaxReadySignals
    /\ signalled' = [signalled EXCEPT !.voice = @ + 1]
    /\ IF variant = "mediator"
         THEN /\ isVoiceReady' = TRUE
              /\ CheckFullConnection(isVideoReady, TRUE)
         ELSE /\ isFullyConnected' = TRUE
              /\ connectionTimeout' = NoTimer
              /\ frames' = IF ws = "open"
                             THEN [frames EXCEPT !.ready = @ + 1,
                                                 !.early = @ \/ ~signalled.video]
                             ELSE frames
              /\ UNCHANGED isVoiceReady
    /\ UNCHANGED <<variant, cpc, ws, now, conversationStartTime, isVideoReady,
                   upstreamVars, closeVars, turnVars>>

\* videoServiceWs.onclose
VideoClosed ==
    /\ videoServiceWs \in {"connecting", "open"}
    /\ videoServiceWs' = "closed"
    /\ ws' = IF variant = "mediator" /\ isFullyConnected THEN CloseClient(ws) ELSE ws
    /\ UNCHANGED <<variant, cpc, now, conversationStartTime, connectionTimeout,
                   readyVars, voiceServiceWs, streamOpen, closeVars, turnVars, frames>>

\* voiceServiceWs.onclose
VoiceClosed ==
    /\ voiceServiceWs \in {"connecting", "open"}
    /\ voiceServiceWs' = "closed"
    /\ ws' = IF variant = "mediator" => isFullyConnected THEN CloseClient(ws) ELSE ws
    /\ UNCHANGED <<variant, cpc, now, conversationStartTime, connectionTimeout,
                   readyVars, videoServiceWs, streamOpen, closeVars, turnVars, frames>>

\* the callback of connectionTimeout
WatchdogFires ==
    /\ connectionTimeout.state = "armed"
    /\ now >= connectionTimeout.due
    /\ connectionTimeout' = [connectionTimeout EXCEPT !.state = "fired"]
    /\ IF ~isFullyConnected
         THEN /\ frames' = [Sent(frames, "error") EXCEPT !.expired = TRUE]
              /\ ws' = CloseClient(ws)
         ELSE UNCHANGED <<frames, ws>>
    /\ UNCHANGED <<variant, cpc, now, conversationStartTime, readyVars, upstreamVars,
                   closeVars, turnVars>>

BodyPending == cpc \notin {"returned", "registered"}
ListenerPending == hpc \notin {"idle", "done"}
\* nothing of the session is left to run but the upstreams' own events
ChatSettled == ws = "closed" /\ ~BodyPending /\ ~ListenerPending

\* time passes while something of the session can still read the clock
Tick ==
    /\ variant \in Variants
    /\ ~ChatSettled
    /\ now + ClockStepMs <= MaxClockMs
    /\ now' = now + ClockStepMs
    /\ UNCHANGED <<variant, cpc, ws, conversationStartTime, connectionTimeout,
                   readyVars, upstreamVars, closeVars, turnVars, frames>>

\* The client socket closes: the client went away, or the handshake that
\* ws.close() began has finished. "close" is emitted once, to the listeners
\* registered at that moment; the listener runs to its first await.
WsClose ==
    /\ variant \in Variants
    /\ cpc # "entry"
    /\ ws \in {"open", "closing"}
    /\ ws' = "closed"
    /\ closedAt' = now
    /\ CASE cpc # "registered" ->
              UNCHANGED <<hpc, durationMs, connectionTimeout, upstreamVars>>
         [] cpc = "registered" /\ variant = "mediator" ->
              /\ connectionTimeout' = ClearTimeout(connectionTimeout)
              /\ voiceServiceWs' = CloseUpstream(voiceServiceWs)
              /\ videoServiceWs' = CloseUpstream(videoServiceWs)
              /\ hpc' = "endStream"
              /\ UNCHANGED <<durationMs, streamOpen>>
         [] cpc = "registered" /\ variant = "handler" ->
              /\ connectionTimeout' = NoTimer
              /\ durationMs' = now - conversationStartTime[1]
              /\ hpc' = "record"
              /\ UNCHANGED upstreamVars
    /\ UNCHANGED <<variant, cpc, now, conversationStartTime, readyVars, turnVars,
                   frames>>

\* ws.on("error")
ClientError ==
    /\ cpc = "registered"
    /\ ws = "open"
    /\ IF variant = "mediator"
         THEN /\ ws' = CloseClient(ws)
              /\ UNCHANGED <<connectionTimeout, upstreamVars>>
         ELSE /\ connectionTimeout' = NoTimer
              /\ voiceServiceWs' = CloseIfOpen(voiceServiceWs)
              /\ videoServiceWs' = CloseIfOpen(videoServiceWs)
              /\ UNCHANGED <<ws, streamOpen>>
    /\ UNCHANGED <<variant, cpc, now, conversationStartTime, readyVars, closeVars,
                   turnVars, frames>>

\* handler, close listener: the writes of the conversation record have settled;
\* updateConversationUsage is called for a positive duration, end-stream otherwise
RecordDone ==
    /\ variant = "handler"
    /\ hpc = "record"
    /\ IF Billable(durationMs)
         THEN /\ frames' = [frames EXCEPT !.usage = @ + 1]
              /\ hpc' = "usage"
         ELSE /\ hpc' = "endStream"
              /\ UNCHANGED frames
    /\ UNCHANGED <<variant, cpc, ws, now, conversationStartTime, connectionTimeout,
                   readyVars, upstreamVars, durationMs, closedAt, turnVars>>

\* close listener: updateConversationUsage settles
UsageDone ==
    /\ hpc = "usage"
    /\ hpc' = IF variant = "mediator" THEN "done" ELSE "endStream"
    /\ UNCHANGED <<variant, cpc, ws, now, conversationStartTime, connectionTimeout,
                   readyVars, upstreamVars, durationMs, closedAt, turnVars, frames>>

\* close listener: fetch(end-stream) settles. The mediator measures the
\* duration now and commits it; the handler closes the upstreams that are open.
EndStreamDone(ok) ==
    /\ hpc = "endStream"
    /\ streamOpen' = (streamOpen /\ ~ok)
    /\ IF variant = "mediator"
         THEN LET d == now - conversationStartTime[1]
              IN  /\ durationMs' = d
                  /\ frames' = [frames EXCEPT !.endStream = @ + 1,
                                              !.usage = IF Billable(d) THEN @ + 1 ELSE @]
                  /\ hpc' = IF Billable(d) THEN "usage" ELSE "done"
                  /\ UNCHANGED <<videoServiceWs, voiceServiceWs>>
         ELSE /\ frames' = [frames EXCEPT !.endStream = @ + 1]
              /\ voiceServiceWs' = CloseIfOpen(voiceServiceWs)
              /\ videoServiceWs' = CloseIfOpen(videoServiceWs)
              /\ hpc' = "done"
              /\ UNCHANGED durationMs
    /\ UNCHANGED <<variant, cpc, ws, now, conversationStartTime, connectionTimeout,
                   readyVars, closedAt, turnVars>>

\* One session of either variant, from the upgrade of the connection on.
InitChat ==
    /\ variant \in Variants
    /\ ChatFields
    /\ NoChunking
    /\ NoSide
    /\ W = 1
    /\ videoLimit = AmpleLimit
    /\ audioLimit = AmpleLimit
    /\ videoUsed = 0
    /\ audioUsed = 0
    /\ JobFields

ChatBody ==
    \/ \E ok \in BOOLEAN : ChatEntry(ok)
    \/ \E ok \in BOOLEAN : AuthDone(ok)
    \/ \E o \in {"ok", "exhausted"} : ProfileDone(o)
    \/ \E ok \in BOOLEAN : InsertDone(ok)
    \/ \E ok \in BOOLEAN : AvatarDone(ok)
    \/ \E o \in {"ok", "refused", "voice_throws"} : InitStreamDone(o)
    \/ MarkFailedDone

ChatUpstream == VideoOpen \/ VoiceOpen \/ VoiceReady \/ VideoClosed \/ VoiceClosed

ChatClose ==
    \/ WsClose
    \/ ClientError
    \/ RecordDone
    \/ UsageDone
    \/ \E ok \in BOOLEAN : EndStreamDone(ok)

ChatInit == ChatBody /\ UNCHANGED <<jobVars, chunkVars, sideVars>>
ChatUp == ChatUpstream /\ UNCHANGED <<jobVars, chunkVars, sideVars>>
ChatTimer == (WatchdogFires \/ Tick) /\ UNCHANGED <<jobVars, chunkVars, sideVars>>
ChatEnd == ChatClose /\ UNCHANGED <<jobVars, chunkVars, sideVars>>

ChatNext == ChatInit \/ ChatUp \/ ChatTimer \/ ChatEnd

SpecChat == InitChat /\ [][ChatNext]_vars

\* ------------------------------------------------ properties of chat sessions
Started == conversationStartTime # <<>>
\* more than 0.1 minutes from conversationStartTime to the close of the client socket
LongSession == Started /\ ws = "closed" /\ (closedAt - conversationStartTime[1]) * 10 > MinuteMs

\* C11: a session commits its conversation minutes (updateConversationUsage) at
\* most once, and once everything of a session has run whose client socket closed
\* more than 0.1 minutes after the session started, it has committed exactly once.
C11_UsageCommittedOnce ==
    /\ frames.usage <= 1
    /\ ChatSettled /\ LongSession => frames.usage = 1

\* the first half of C11 alone
C11_AtMostOneCommit == frames.usage <= 1

\* C12: in a session whose watchdog fired before readiness was reached, the
\* client socket is closed (or closing) from then on and conversation usage is
\* never committed.
C12_ExpiredNeverCommits ==
    frames.expired => ws # "open" /\ frames.usage = 0

\* C13: a ready frame is sent to the client only when both the video upstream
\* and the voice upstream have signalled readiness, and at most one ready frame
\* is sent per session.
C13_ReadyOnceWhenBothReady ==
    frames.ready <= 1 /\ ~frames.early

\* C13 for the mediator alone, where checkFullConnection guards the frame
C13_MediatorReadyOnce ==
    variant = "mediator" => frames.ready <= 1 /\ ~frames.early

\* what a finished session must have released
Live(upstream) == upstream \in {"connecting", "open"}
CleanedUp ==
    /\ connectionTimeout.state # "armed"
    /\ ~Live(videoServiceWs)
    /\ ~Live(voiceServiceWs)
    /\ streamOpen => frames.endStream > 0

\* C15: however a video session ends, once its client socket has closed and
\* its body and listeners have run, the watchdog is not armed, no upstream
\* socket the session opened is connecting or open, and end-stream was called
\* for the stream that init-stream opened.
C15_CleanupOnEveryExit ==
    ChatSettled => CleanedUp

\* C15 for the sessions of the mediator whose close listener ran
C15_MediatorListenerCleansUp ==
    variant = "mediator" /\ hpc = "done" => CleanedUp

\* ------------------------------------------------------- turns of a session
MaxTurns == 2           \* user_text messages of one session

Turns == 1..Len(tpc)

\* The tail of a turn with the fallback text kept from the voice upstream.
SpeakModelTextOnly(t, text, log) ==
    /\ transcript' = Append(log, <<"model", t>>)
    /\ replies' = IF ws = "open" THEN Append(replies, <<t, text>>) ELSE replies
    /\ said' = IF voiceServiceWs = "open" /\ text = "model_text"
               THEN Append(said, <<t, text>>) ELSE said
    /\ spoken' = IF voiceServiceWs = "open" /\ text = "model_text"
                 THEN Append(spoken, t) ELSE spoken
    /\ UNCHANGED frames

\* the tail of a user_text turn: the model entry is pushed to the transcript
\* log, the reply goes to the client if its socket is open, and to the voice
\* upstream if that is open
Speak(t, text, log) ==
    /\ transcript' = Append(log, <<"model", t>>)
    /\ replies' = IF ws = "open" THEN Append(replies, <<t, text>>) ELSE replies
    /\ said' = IF voiceServiceWs = "open" THEN Append(said, <<t, text>>) ELSE said
    /\ spoken' = IF voiceServiceWs = "open" THEN Append(spoken, t) ELSE spoken
    /\ UNCHANGED frames

\* The message listener without its test of isFullyConnected.
UserTextAnyTime(short) ==
    /\ cpc = "registered"
    /\ ws # "closed"
    /\ Len(tpc) < MaxTurns
    /\ LET t == Len(tpc) + 1
       IN  CASE variant = "handler" /\ voiceServiceWs # "open" ->
                  /\ tpc' = Append(tpc, "rejected")
                  /\ frames' = Sent(frames, "error")
                  /\ transcript' = Append(transcript, <<"user", t>>)
                  /\ UNCHANGED <<llmCalls, spoken, replies, said>>
             [] variant = "handler" /\ voiceServiceWs = "open" /\ short ->
                  /\ tpc' = Append(tpc, "done")
                  /\ Speak(t, "default_text", Append(transcript, <<"user", t>>))
                  /\ UNCHANGED llmCalls
             [] OTHER ->
                  /\ tpc' = Append(tpc, "llm")
                  /\ llmCalls' = Append(llmCalls, t)
                  /\ transcript' = Append(transcript, <<"user", t>>)
                  /\ UNCHANGED <<frames, spoken, replies, said>>
    /\ UNCHANGED <<variant, cpc, ws, now, conversationStartTime, connectionTimeout,
                   readyVars, upstreamVars, closeVars, lastStop>>

\* ws.on("message") with a user_text, up to its await of getGeminiResponse.
\* Messages are delivered until the socket has closed, also after ws.close().
\* short: the text is empty or shorter than two characters after trimming.
UserText(short) ==
    /\ cpc = "registered"
    /\ ws # "closed"
    /\ Len(tpc) < MaxTurns
    /\ LET t == Len(tpc) + 1
       IN  CASE ~isFullyConnected ->
                  /\ tpc' = Append(tpc, "ignored")
                  /\ UNCHANGED <<frames, llmCalls, spoken, replies, said, transcript>>
             [] isFullyConnected /\ variant = "handler" /\ voiceServiceWs # "open" ->
                  /\ tpc' = Append(tpc, "rejected")
                  /\ frames' = Sent(frames, "error")
                  /\ transcript' = Append(transcript, <<"user", t>>)
                  /\ UNCHANGED <<llmCalls, spoken, replies, said>>
             [] isFullyConnected /\ variant = "handler" /\ voiceServiceWs = "open" /\ short ->
                  /\ tpc' = Append(tpc, "done")
                  /\ Speak(t, "default_text", Append(transcript, <<"user", t>>))
                  /\ UNCHANGED llmCalls
             [] OTHER ->
                  /\ tpc' = Append(tpc, "llm")
                  /\ llmCalls' = Append(llmCalls, t)
                  /\ transcript' = Append(transcript, <<"user", t>>)
                  /\ UNCHANGED <<frames, spoken, replies, said>>
    /\ UNCHANGED <<variant, cpc, ws, now, conversationStartTime, connectionTimeout,
                   readyVars, upstreamVars, closeVars, lastStop>>

\* getGeminiResponse settles for turn t (it returns the model's text, or its
\* fallback sentence when the call failed) and the listener runs to its end
LlmDone(t, failed) ==
    /\ t \in Turns
    /\ tpc[t] = "llm"
    /\ tpc' = [tpc EXCEPT ![t] = "done"]
    /\ Speak(t, IF failed THEN "fallback_text" ELSE "model_text", transcript)
    /\ UNCHANGED <<variant, cpc, ws, now, conversationStartTime, connectionTimeout,
                   readyVars, upstreamVars, closeVars, llmCalls, lastStop>>

\* ws.on("message") with a stop_speaking: only the handler has a branch for it
StopSpeaking ==
    /\ cpc = "registered"
    /\ ws # "closed"
    /\ LET handled == variant = "handler"
       IN  lastStop' = [seen |-> TRUE,
                           voiceOpen |-> voiceServiceWs = "open",
                           videoOpen |-> videoServiceWs = "open",
                           toVoice |-> handled /\ voiceServiceWs = "open",
                           toVideo |-> handled /\ videoServiceWs = "open",
                           speechEnd |-> handled]
    /\ UNCHANGED <<variant, cpc, ws, now, conversationStartTime, connectionTimeout,
                   readyVars, upstreamVars, closeVars, tpc, llmCalls, spoken, frames,
                   replies, said, transcript>>

\* A session whose body has just run to its end: the listeners are registered,
\* the watchdog is armed, both upstream sockets are connecting.
RegisteredSession ==
    /\ variant \in Variants
    /\ cpc = "registered"
    /\ hpc = "idle"
    /\ ws = "open"
    /\ now = 0
    /\ conversationStartTime = <<0>>
    /\ connectionTimeout = [state |-> "armed", due |-> TimeoutMs]
    /\ isVideoReady = FALSE
    /\ isVoiceReady = FALSE
    /\ isFullyConnected = FALSE
    /\ videoServiceWs = "connecting"
    /\ voiceServiceWs = "connecting"
    /\ streamOpen = TRUE
    /\ durationMs = 0
    /\ tpc = <<>>
    /\ closedAt = 0
    /\ frames = NoFrames
    /\ signalled = NoSignals
    /\ llmCalls = <<>>
    /\ spoken = <<>>
    /\ lastStop = NoStop
    /\ replies = <<>>
    /\ said = <<>>
    /\ transcript = <<>>

InitTurns ==
    /\ RegisteredSession
    /\ NoChunking
    /\ NoSide
    /\ W = 1
    /\ videoLimit = AmpleLimit
    /\ audioLimit = AmpleLimit
    /\ videoUsed = 0
    /\ audioUsed = 0
    /\ JobFields

TurnMessage ==
    /\ (\E short \in BOOLEAN : UserText(short)) \/ StopSpeaking
    /\ UNCHANGED <<jobVars, chunkVars, sideVars>>
TurnReply ==
    /\ \E t \in 1..MaxTurns, failed \in BOOLEAN : LlmDone(t, failed)
    /\ UNCHANGED <<jobVars, chunkVars, sideVars>>
TurnUpstream == ChatUpstream /\ UNCHANGED <<jobVars, chunkVars, sideVars>>

TurnNext == TurnMessage \/ TurnReply \/ TurnUpstream

SpecTurns == InitTurns /\ [][TurnNext]_vars

\* strictly increasing
Ascending(seq) == \A i, j \in 1..Len(seq) : i < j => seq[i] < seq[j]

\* C14: the LLM call of a turn is not issued while the call of an earlier turn
\* of the session is outstanding, and text_to_speak messages reach the voice
\* upstream in the order of the user turns.
C14_TurnsSerialised ==
    /\ \A s, t \in Turns : s < t /\ tpc[t] = "llm" => tpc[s] # "llm"
    /\ Ascending(spoken)

\* the calls themselves are issued in the order of the turns
C14_CallsInTurnOrder == Ascending(llmCalls)

\* C16: a stop_speaking from the client is forwarded to the voice upstream and
\* to the video upstream, each if open, and a speech_end frame is sent to the
\* client, all in the turn of the listener that received it.
C16_StopForwardedAtOnce ==
    lastStop.seen =>
        /\ lastStop.speechEnd
        /\ lastStop.voiceOpen => lastStop.toVoice
        /\ lastStop.videoOpen => lastStop.toVideo

\* C16 for the handler alone, which has the branch
C16_HandlerStopForwarded ==
    variant = "handler" => C16_StopForwardedAtOnce

\* ------------------------------------------------------------- text chunker
\* splitTextIntoChunks of src/unnamed/part_002. A text is a sequence of
\* characters, a chunk list a sequence of texts.
MaxTextLen == 6         \* length of the texts tried
MaxCap == 2             \* maxTokens ranges over 1..MaxCap

CharsPerToken == 3

Chars == {"a", " ", ".", "?"}
IsTerminator(c) == c \in {".", "!", "?"}
IsSpace(c) == c = " "

\* Math.ceil(text.length / 3)
estimateTokenCount(t) == (Len(t) + CharsPerToken - 1) \div CharsPerToken

\* text.split(/[.!?]+/): the pieces between maximal runs of terminators, the
\* empty pieces before a leading and after a trailing run included
RECURSIVE SplitSentences(_, _, _)
SplitSentences(t, i, piece) ==
    IF i > Len(t) THEN <<piece>>
    ELSE IF ~IsTerminator(t[i]) THEN SplitSentences(t, i + 1, Append(piece, t[i]))
    ELSE IF i > 1 /\ IsTerminator(t[i - 1]) THEN SplitSentences(t, i + 1, piece)
    ELSE <<piece>> \o SplitSentences(t, i + 1, <<>>)

\* s.split(" "): the pieces between single spaces, empty pieces included
RECURSIVE SplitWords(_, _, _)
SplitWords(t, i, piece) ==
    IF i > Len(t) THEN <<piece>>
    ELSE IF IsSpace(t[i]) THEN <<piece>> \o SplitWords(t, i + 1, <<>>)
    ELSE SplitWords(t, i + 1, Append(piece, t[i]))

\* s.trim()
RECURSIVE TrimStart(_)
TrimStart(t) == IF t # <<>> /\ IsSpace(Head(t)) THEN TrimStart(Tail(t)) ELSE t
RECURSIVE TrimEnd(_)
TrimEnd(t) ==
    IF t # <<>> /\ IsSpace(t[Len(t)]) THEN TrimEnd(SubSeq(t, 1, Len(t) - 1)) ELSE t
Trim(t) == TrimEnd(TrimStart(t))

\* .filter((s) => s.trim().length > 0)
NonBlank(list) == SelectSeq(list, LAMBDA x : Len(Trim(x)) > 0)

\* potentialChunk.length <= maxChars
FitsStrictly(potential, maxChars) == Len(potential) < maxChars
Fits(potential, maxChars) == Len(potential) <= maxChars

\* if (currentChunk) chunks.push(currentChunk + ".")
SaveChunkNever(chunks, currentChunk) == chunks
SaveChunk(chunks, currentChunk) ==
    IF currentChunk # <<>> THEN Append(chunks, currentChunk \o <<".">>) ELSE chunks

\* the loop over the words of a sentence that is too long
RECURSIVE PackWords(_, _, _, _)
PackWords(words, i, st, maxChars) ==
    IF i > Len(words) THEN st
    ELSE LET word == words[i]
             potentialWordChunk == IF st.wordChunk # <<>>
                                     THEN st.wordChunk \o <<" ">> \o word
                                     ELSE word
         IN  IF Fits(potentialWordChunk, maxChars)
               THEN PackWords(words, i + 1,
                              [st EXCEPT !.wordChunk = potentialWordChunk], maxChars)
               ELSE PackWords(words, i + 1,
                              [chunks |-> IF st.wordChunk # <<>>
                                            THEN Append(st.chunks, st.wordChunk)
                                            ELSE st.chunks,
                               wordChunk |-> word], maxChars)

\* the loop over the sentences
RECURSIVE PackSentences(_, _, _, _)
PackSentences(sentences, i, st, maxChars) ==
    IF i > Len(sentences) THEN st
    ELSE LET trimmedSentence == Trim(sentences[i])
             potentialChunk == IF st.currentChunk # <<>>
                                 THEN st.currentChunk \o <<".", " ">> \o trimmedSentence
                                 ELSE trimmedSentence
             saved == SaveChunk(st.chunks, st.currentChunk)
             byWords == PackWords(SplitWords(trimmedSentence, 1, <<>>), 1,
                                  [chunks |-> saved, wordChunk |-> <<>>], maxChars)
         IN  PackSentences(sentences, i + 1,
                 IF Fits(potentialChunk, maxChars)
                   THEN [st EXCEPT !.currentChunk = potentialChunk]
                   ELSE IF Len(trimmedSentence) > maxChars
                     THEN [chunks |-> byWords.chunks,
                           currentChunk |-> IF byWords.wordChunk # <<>>
                                              THEN byWords.wordChunk
                                              ELSE st.currentChunk]
                     ELSE [chunks |-> saved, currentChunk |-> trimmedSentence],
                 maxChars)

Sentences(t) == NonBlank(SplitSentences(t, 1, <<>>))

splitTextIntoChunks(t, cap) ==
    LET maxChars == cap * CharsPerToken
        st == PackSentences(Sentences(t), 1,
                            [chunks |-> <<>>, currentChunk |-> <<>>], maxChars)
        all == SaveChunk(st.chunks, st.currentChunk)
    IN  NonBlank(all)

\* Every text of up to MaxTextLen characters under every cap, and the text of
\* nine sentences with the cap that gives each chunk a third of its length.
Texts == UNION {[1..n -> Chars] : n \in 0..MaxTextLen}
RECURSIVE Repeat(_, _)
Repeat(t, n) == IF n = 0 THEN <<>> ELSE t \o Repeat(t, n - 1)
NineSentences == Repeat(<<"a", ".", " ">>, 9)
NineSentencesCap == Len(NineSentences) \div 9

InitChunk ==
    /\ \/ srcText \in Texts /\ maxTokens \in 1..MaxCap
       \/ srcText = NineSentences /\ maxTokens = NineSentencesCap
    /\ finalChunks = NotRun
    /\ NoChat
    /\ NoSide
    /\ W = 1
    /\ videoLimit = AmpleLimit
    /\ audioLimit = AmpleLimit
    /\ videoUsed = 0
    /\ audioUsed = 0
    /\ JobFields

\* the call at part_002:365
SplitCall ==
    /\ finalChunks = NotRun
    /\ finalChunks' = splitTextIntoChunks(srcText, maxTokens)
    /\ UNCHANGED <<srcText, maxTokens, jobVars, chatVars, sideVars>>

ChunkNext == SplitCall

SpecChunk == InitChunk /\ [][ChunkNext]_vars

\* C17: every chunk that splitTextIntoChunks returns has an estimated token
\* count of at most the cap, that is at most 3 * maxTokens characters.
C17_ChunksWithinCap ==
    finalChunks # NotRun =>
        \A i \in 1..Len(finalChunks) : estimateTokenCount(finalChunks[i]) <= maxTokens

\* the chunks joined in order, a space between neighbours
RECURSIVE Flatten(_)
Flatten(list) == IF list = <<>> THEN <<>>
                 ELSE IF Len(list) = 1 THEN Head(list)
                 ELSE Head(list) \o <<" ">> \o Flatten(Tail(list))
\* a text without its whitespace
Squeeze(t) == SelectSeq(t, LAMBDA c : ~IsSpace(c))
\* the words of a text: the pieces between spaces and terminators
RECURSIVE WordsOf(_, _, _)
WordsOf(t, i, piece) ==
    LET done == IF piece = <<>> THEN <<>> ELSE <<piece>>
    IN  IF i > Len(t) THEN done
        ELSE IF IsSpace(t[i]) \/ IsTerminator(t[i]) THEN done \o WordsOf(t, i + 1, <<>>)
        ELSE WordsOf(t, i + 1, Append(piece, t[i]))

\* the sentences of a text, each as its words
SentenceWords(t) == [i \in 1..Len(Sentences(t)) |-> WordsOf(Sentences(t)[i], 1, <<>>)]

\* C18, as stated: the chunks joined in order are the source text up to
\* whitespace: with the whitespace taken out of both, they are the source, or
\* the source and the period that ends the last chunk.
C18_JoinedIsSource ==
    finalChunks # NotRun =>
        \/ Squeeze(Flatten(finalChunks)) = Squeeze(srcText)
        \/ Squeeze(Flatten(finalChunks)) = Squeeze(srcText) \o <<".">>

\* C18: the chunks joined in order have the words of the source and the
\* sentences of the source, none dropped, duplicated or reordered; what differs
\* from the source is whitespace and the sentence terminators.
C18_WordsAndSentencesKept ==
    finalChunks # NotRun =>
        /\ WordsOf(Flatten(finalChunks), 1, <<>>) = WordsOf(srcText, 1, <<>>)
        /\ SentenceWords(Flatten(finalChunks)) = SentenceWords(srcText)

\* a text of more than one sentence, one of them a question, came out in
\* more than one chunk that together are not the source
C18_Witness ==
    /\ finalChunks # NotRun
    /\ Len(finalChunks) > 1
    /\ Len(Sentences(srcText)) > 1
    /\ \E i \in 1..Len(srcText) : srcText[i] = "?"
    /\ Squeeze(Flatten(finalChunks)) # Squeeze(srcText)
    /\ Squeeze(Flatten(finalChunks)) # Squeeze(srcText) \o <<".">>

\* Packing by lengths: a group of consecutive sentences takes their lengths
\* and two characters between neighbours.
RECURSIVE GroupLen(_, _, _)
GroupLen(lens, i, j) == IF i > j THEN 0
                        ELSE IF i = j THEN lens[i]
                        ELSE lens[i] + 2 + GroupLen(lens, i + 1, j)
Least(S) == CHOOSE x \in S : \A y \in S : x <= y
\* the least number of groups that sentences i.. can be cut into in order
RECURSIVE MinGroups(_, _, _)
MinGroups(lens, i, maxChars) ==
    IF i > Len(lens) THEN 0
    ELSE 1 + Least({MinGroups(lens, j + 1, maxChars) :
                       j \in {k \in i..Len(lens) : GroupLen(lens, i, k) <= maxChars}})
\* the number of groups when each group takes every sentence that still fits
RECURSIVE GreedyGroups(_, _, _, _)
GreedyGroups(lens, i, room, maxChars) ==
    IF i > Len(lens) THEN 0
    ELSE IF room = maxChars THEN 1 + GreedyGroups(lens, i + 1, maxChars - lens[i], maxChars)
    ELSE IF lens[i] + 2 <= room THEN GreedyGroups(lens, i + 1, room - lens[i] - 2, maxChars)
    ELSE 1 + GreedyGroups(lens, i + 1, maxChars - lens[i], maxChars)

SentenceLens == [i \in 1..Len(Sentences(srcText)) |-> Len(Trim(Sentences(srcText)[i]))]
EverySentenceFits ==
    \A i \in 1..Len(SentenceLens) : SentenceLens[i] <= maxTokens * CharsPerToken

\* C19: for a text whose sentences each fit in 3 * maxTokens characters, the
\* number of chunks returned is the number that greedy in-order packing of the
\* sentences produces, and no in-order packing under the cap has fewer groups.
C19_GreedyMinimalCount ==
    finalChunks # NotRun /\ EverySentenceFits =>
        /\ Len(finalChunks) = GreedyGroups(SentenceLens, 1, maxTokens * CharsPerToken,
                                           maxTokens * CharsPerToken)
        /\ Len(finalChunks) = MinGroups(SentenceLens, 1, maxTokens * CharsPerToken)

\* nine sentences whose length totals nine times the cap came out as three chunks
C19_Witness ==
    /\ srcText = NineSentences
    /\ Len(Sentences(srcText)) = 9
    /\ Len(srcText) = 9 * maxTokens
    /\ finalChunks # NotRun
    /\ Len(finalChunks) = 3

\* ------------------------------------------------------ rows of video jobs
\* C20: every video job row whose input mode is script has a script text that
\* is not null and an avatar whose voice sample URL is not null.
C20_ScriptRowsComplete ==
    \A j \in VideoIds :
        vrow[j].status # "absent" /\ vrow[j].input_type = "script" =>
            /\ vrow[j].prompt # NoText
            /\ AvatarRow(vrow[j].avatar_id).voice_url

\* C20 for the bodies that name the script mode themselves
C20_NamedScriptRowsComplete ==
    \A j \in VideoIds :
        vrow[j].status # "absent" /\ vtask[j].inputType = "script" =>
            /\ vrow[j].prompt # NoText
            /\ AvatarRow(vrow[j].avatar_id).voice_url

\* ---------------------------------------------------- terminators of chunks
EndsWithPeriod(t) == t # <<>> /\ t[Len(t)] = "."

\* C29: every chunk that splitTextIntoChunks returns ends with a period, the
\* chunks cut on word boundaries inside an over-long sentence included.
C29_EveryChunkEndsWithPeriod ==
    finalChunks # NotRun =>
        \A i \in 1..Len(finalChunks) : EndsWithPeriod(finalChunks[i])

\* C29 for the texts none of whose sentences is longer than the cap
C29_SentenceChunksEndWithPeriod ==
    finalChunks # NotRun /\ EverySentenceFits =>
        \A i \in 1..Len(finalChunks) : EndsWithPeriod(finalChunks[i])

\* ------------------------------------------------ audio text length limit
\* A request that passes every check of generateAudio before the length test.
ReachesLengthTest(req) ==
    /\ CheckAudioLimit(req) = 0
    /\ ~Blank(req.text)
    /\ req.voiceId # NoAvatar
    /\ req.user # NoUser
    /\ ~WouldExceedAudioLimit(req)

\* C23: generateAudio accepts a text of exactly 1000 characters, inserting
\* its row as queued, and answers 400 without creating a row for every text
\* of 1001 or more characters (read literally: the length of the text sent).
C23_LengthLimitOnSentText ==
    [][\A req \in AllAudioRequests :
          GenerateAudio(req) /\ ReachesLengthTest(req) /\ ~req.insertError
          => IF req.text.len <= MaxAudioTextChars
             THEN res'.status = 200 /\ arow'[NextAudioId].status = "queued"
             ELSE res'.status = 400 /\ arow' = arow]_vars

\* C23, on the trimmed text: a text whose trimmed length is at most 1000 is
\* accepted and its row inserted as queued holding the trimmed text; a text
\* whose trimmed length is 1001 or more is answered 400 and no row is created.
C23_LengthLimitOnTrimmedText ==
    [][\A req \in AllAudioRequests :
          GenerateAudio(req) /\ ReachesLengthTest(req) /\ ~req.insertError
          => IF req.text.trimLen <= MaxAudioTextChars
             THEN /\ res'.status = 200
                  /\ arow'[NextAudioId].status = "queued"
                  /\ arow'[NextAudioId].prompt.len = req.text.trimLen
             ELSE res'.status = 400 /\ arow' = arow]_vars

\* A queued row holding a text of exactly 1000 characters.
C23_Witness ==
    \E j \in AudioIds : /\ arow[j].status = "queued"
                        /\ arow[j].prompt.len = MaxAudioTextChars

\* ------------------------------------------------ poll outcomes
\* C25: when a status poll returns JSON with status failed, the poller stops
\* polling for the job at that attempt and the row is written failed with the
\* upstream error text as its error_message.
C25_FailedStatusStopsPolling ==
    [][\A j \in VideoIds :
          PollAttempt(j, "json_failed")
          => /\ vpc'[j] # "poll"
             /\ vrow'[j].status = "failed"
             /\ vrow'[j].error_message = "json_failed"]_vars

\* C25, the part the poller keeps: a failed status never completes the job
\* and never uploads or commits for it.
C25_FailedStatusNeverCompletes ==
    [][\A j \in VideoIds :
          PollAttempt(j, "json_failed")
          => /\ vrow'[j].status # "completed"
             /\ uploaded' = uploaded
             /\ commits' = commits]_vars

\* The poll responses the poller treats as transient.
TransientOutcomes == {"not_found", "http_error", "json_processing", "mp4_empty"}

ChunkLoopBroken(j) == apc[j] \in {"catch", "done"} /\ chunkIdx[j] < atask[j].chunks

\* C27: the synthesize requests of an audio job are issued one at a time in
\* the order c1..cn, with a pause between two consecutive requests and none
\* after cn; when a request returns non-2xx or an empty body no later chunk is
\* requested, nothing is uploaded, no usage is committed and the row is
\* written failed.
C27_ChunksInOrderStopOnFailure ==
    [][\A j \in AudioIds :
          /\ AudioChunk(j, "ok")
             => /\ chunkIdx'[j] = chunkIdx[j] + 1
                /\ chunkIdx'[j] < atask[j].chunks => apc'[j] = "pause"
                /\ chunkIdx'[j] = atask[j].chunks => apc'[j] = "assemble"
          /\ AudioPause(j) => apc'[j] = "chunk" /\ chunkIdx'[j] = chunkIdx[j]
          /\ \A o \in {"http_error", "empty_body"} :
                AudioChunk(j, o) => apc'[j] = "catch" /\ chunkIdx'[j] = chunkIdx[j]
          /\ ChunkLoopBroken(j)
             => /\ chunkIdx'[j] = chunkIdx[j]
                /\ AudioKey(atask[j].userId, j) \notin uploaded'
                /\ acommits'[j] = 0
                /\ audioUsed' = audioUsed \/ apc[j] = "done"
                /\ apc'[j] = "done" => arow'[j].status = "failed"]_vars

\* A job with two chunks whose second request failed, its row written failed.
C27_Witness ==
    \E j \in AudioIds : /\ apc[j] = "done"
                        /\ atask[j].chunks = 2
                        /\ chunkIdx[j] = 1
                        /\ arow[j].status = "failed"

\* ------------------------------------------------ deleting a job row
Kinds == {"video", "audio"}
OtherUser == "u2"
DeleteIds == 1..2

\* video_generation_history or generated_audios.
Table(kind) == IF kind = "video" THEN vrow ELSE arow

\* .select("*").eq("id", id).eq("user_id", userId).single(): the caller's row,
\* NoRow when there is none.
OwnRow(kind, id, user) ==
    IF Table(kind)[id].status # "absent" /\ Table(kind)[id].user_id = user
    THEN Table(kind)[id] ELSE NoRow

\* if (video.video_url) / if (audio.audio_url && audio.audio_url.trim() !== "").
HasFile(url) == url \notin {NoUrl, EmptyUrl}

\* getVideoStatus, getAudioStatus.
GetStatus(kind, id, user) ==
    /\ res' = Response(IF user = NoUser THEN 401
                       ELSE IF OwnRow(kind, id, user) = NoRow THEN 404
                       ELSE 200, NoUsageInfo)
    /\ UNCHANGED <<vrow, arow, storage, del, deleted>>

\* deleteVideo, deleteAudio up to the answer of the select.
DeleteSelect(d, kind, id, user) ==
    LET row == OwnRow(kind, id, user)
    IN /\ del[d].pc = "idle"
       /\ IF user = NoUser
          THEN res' = Response(401, NoUsageInfo) /\ UNCHANGED del
          ELSE IF row = NoRow
          THEN res' = Response(404, NoUsageInfo) /\ UNCHANGED del
          ELSE /\ del' = [del EXCEPT ![d] =
                             [pc |-> IF HasFile(row.url) THEN "remove" ELSE "delete",
                              kind |-> kind, id |-> id, user |-> user, url |-> row.url]]
               /\ res' = NoResponse
       /\ UNCHANGED <<vrow, arow, storage, deleted>>

\* storage.remove([filePath]); a throw is caught and logged.
DeleteRemoveFile(d, ok) ==
    /\ del[d].pc = "remove"
    /\ storage' = IF ok THEN storage \ {del[d].url[2]} ELSE storage
    /\ del' = [del EXCEPT ![d].pc = "delete"]
    /\ res' = NoResponse
    /\ UNCHANGED <<vrow, arow, deleted>>

\* .delete().eq("id", id).eq("user_id", userId) and the response.
DeleteRow(d, ok) ==
    LET kind == del[d].kind
        id == del[d].id
    IN /\ del[d].pc = "delete"
       /\ IF ok
          THEN /\ vrow' = IF kind = "video" THEN [vrow EXCEPT ![id] = NoRow] ELSE vrow
               /\ arow' = IF kind = "audio" THEN [arow EXCEPT ![id] = NoRow] ELSE arow
               /\ deleted' = deleted \cup {<<kind, id>>}
               /\ res' = Response(200, NoUsageInfo)
          ELSE /\ res' = Response(500, NoUsageInfo)
               /\ UNCHANGED <<vrow, arow, deleted>>
       /\ del' = [del EXCEPT ![d] = NoDelete]
       /\ UNCHANGED storage

\* Rows as the workers leave them: completed with a stored file, or failed.
CompletedRow(kind, id, user) ==
    [NoRow EXCEPT !.status = "completed", !.user_id = user, !.progress = 100,
                  !.url = PublicUrl(IF kind = "video" THEN VideoKey(id, "fast")
                                    ELSE AudioKey(user, id))]
FailedRowOf(user) ==
    [NoRow EXCEPT !.status = "failed", !.user_id = user, !.url = EmptyUrl,
                  !.error_message = "error"]
StoredRows(kind, id) ==
    IF id = 1 THEN {CompletedRow(kind, id, User), FailedRowOf(User)}
    ELSE IF id = 2 /\ kind = "video" THEN {CompletedRow(kind, id, OtherUser)}
    ELSE {NoRow}
FilesOf(rows) == {rows[j].url[2] : j \in {i \in DOMAIN rows : HasFile(rows[i].url)}}

InitDelete ==
    /\ vrow \in {r \in [VideoIds -> {NoRow, CompletedRow("video", 1, User),
                                      CompletedRow("video", 2, OtherUser),
                                      FailedRowOf(User)}] :
                    \A j \in VideoIds : r[j] \in StoredRows("video", j)}
    /\ arow \in {r \in [AudioIds -> {NoRow, CompletedRow("audio", 1, User),
                                      CompletedRow("audio", 2, OtherUser),
                                      FailedRowOf(User)}] :
                    \A j \in AudioIds : r[j] \in StoredRows("audio", j)}
    /\ storage = FilesOf(vrow) \cup FilesOf(arow)
    /\ W = 1
    /\ videoLimit = AmpleLimit
    /\ audioLimit = AmpleLimit
    /\ videoUsed = 0
    /\ audioUsed = 0
    /\ NoChat
    /\ NoChunking
    /\ NoSide
    /\ WorkerFields

deleteVars == <<vrow, arow, storage, res, del, deleted>>
DeleteFrame ==
    UNCHANGED <<W, videoQueue, activeJobs, vtask, vpc, attempts, tempBlob, videoUsed,
                videoLimit, usageRead, processingQueue, isProcessing, atask, apc,
                chunkIdx, audioUsed, audioLimit, audioRead, dequeued, started,
                adequeued, released, exitPath, uploaded, commits, acommits, ledger,
                chatVars, chunkVars, delivered, clock, tokens, verdict,
                tempDirFiles, concat, mediaVars, moreVars>>

DeleteRequest ==
    /\ \E d \in 1..MaxDeletes, kind \in Kinds, id \in DeleteIds,
          user \in {User, OtherUser, NoUser} : DeleteSelect(d, kind, id, user)
    /\ DeleteFrame
DeleteStep ==
    /\ \E d \in 1..MaxDeletes, ok \in BOOLEAN :
          DeleteRemoveFile(d, ok) \/ DeleteRow(d, ok)
    /\ DeleteFrame
StatusRequest ==
    /\ \E kind \in Kinds, id \in DeleteIds, user \in {User, OtherUser, NoUser} :
          GetStatus(kind, id, user)
    /\ DeleteFrame

DeleteNext == DeleteRequest \/ DeleteStep \/ StatusRequest

SpecDelete == InitDelete /\ [][DeleteNext]_vars

\* C21: after a job row is deleted a read of it returns not found, and a
\* second delete of the same job returns success and changes no state.
C21_DeleteIsIdempotent ==
    [][\A kind \in Kinds, id \in DeleteIds, user \in {User, OtherUser} :
          <<kind, id>> \in deleted
          => /\ GetStatus(kind, id, user) => res'.status = 404
             /\ \A d \in 1..MaxDeletes :
                   DeleteSelect(d, kind, id, user)
                   => /\ res'.status = 200
                      /\ UNCHANGED <<vrow, arow, storage>>]_vars

\* C21, the part the handlers keep: a deleted row stays absent, a read of it
\* returns 404 and a later delete request for it changes neither table nor
\* the object store.
C21_DeletedStaysNotFound ==
    [][\A kind \in Kinds, id \in DeleteIds, user \in {User, OtherUser} :
          <<kind, id>> \in deleted
          => /\ Table(kind)[id] = NoRow
             /\ GetStatus(kind, id, user) => res'.status = 404
             /\ \A d \in 1..MaxDeletes :
                   DeleteSelect(d, kind, id, user)
                   => /\ res'.status = 404
                      /\ UNCHANGED <<vrow, arow, storage>>]_vars

\* ------------------------------------------------ worker callback
\* generated_videos/<job_id>/<epoch_ms>.mp4: every upload has a key of its own.
CallbackKey(id, n) == <<"generated_videos", id, n>>

\* The endpoint without its test for a terminal job.
IsTerminalNever(row) == FALSE

\* "after the job is terminal": completed or failed.
IsTerminal(row) == row.status \in {"completed", "failed"}

\* POST /worker/callback with fields task_id and status and an optional file
\* part; upload tells whether the object store takes the file.
WorkerCallback(id, status, file, upload) ==
    LET row == vrow[id]
        key == CallbackKey(id, Len(delivered[id]) + 1)
    IN /\ Len(delivered[id]) < MaxDeliveries
       /\ delivered' = IF row.status = "absent" THEN delivered
                       ELSE [delivered EXCEPT ![id] = Append(@, status)]
       /\ IF row.status = "absent"
          THEN /\ res' = Response(404, NoUsageInfo)
               /\ UNCHANGED <<vrow, storage, uploaded, commits, videoUsed, ledger>>
          ELSE IF IsTerminal(row)
          THEN /\ res' = Response(200, NoUsageInfo)
               /\ UNCHANGED <<vrow, storage, uploaded, commits, videoUsed, ledger>>
          ELSE IF status = "processing"
          THEN /\ vrow' = [vrow EXCEPT ![id].progress = 70]
               /\ res' = Response(200, NoUsageInfo)
               /\ UNCHANGED <<storage, uploaded, commits, videoUsed, ledger>>
          ELSE IF status = "failed"
          THEN /\ vrow' = [vrow EXCEPT ![id].status = "failed",
                                       ![id].error_message = "worker_error"]
               /\ res' = Response(200, NoUsageInfo)
               /\ UNCHANGED <<storage, uploaded, commits, videoUsed, ledger>>
          ELSE IF ~file
          THEN /\ res' = Response(400, NoUsageInfo)
               /\ UNCHANGED <<vrow, storage, uploaded, commits, videoUsed, ledger>>
          ELSE IF ~upload
          THEN /\ vrow' = [vrow EXCEPT ![id].status = "failed",
                                       ![id].error_message = "upload_error"]
               /\ res' = Response(500, NoUsageInfo)
               /\ UNCHANGED <<storage, uploaded, commits, videoUsed, ledger>>
          ELSE /\ storage' = storage \cup {key}
               /\ uploaded' = uploaded \cup {key}
               /\ vrow' = [vrow EXCEPT ![id].status = "completed",
                                       ![id].url = PublicUrl(key),
                                       ![id].progress = 100]
               /\ commits' = [commits EXCEPT ![id] = @ + 1]
               /\ videoUsed' = videoUsed + VideoMinutes(row.prompt)
               /\ ledger' = ledger + VideoMinutes(row.prompt)
               /\ res' = Response(200, NoUsageInfo)

\* A job the runner left in processing for the callback to complete.
AwaitingRow ==
    [NoRow EXCEPT !.status = "processing", !.user_id = User, !.progress = 70,
                  !.url = EmptyUrl, !.prompt = ShortText, !.input_type = "script"]

InitCallback ==
    /\ vrow = [j \in VideoIds |-> IF j \in DeleteIds THEN AwaitingRow ELSE NoRow]
    /\ arow = [j \in AudioIds |-> NoRow]
    /\ storage = {}
    /\ W = 1
    /\ videoLimit = AmpleLimit
    /\ audioLimit = AmpleLimit
    /\ videoUsed = 0
    /\ audioUsed = 0
    /\ NoChat
    /\ NoChunking
    /\ NoSide
    /\ WorkerFields

CallbackNext ==
    /\ \E id \in VideoIds, status \in {"processing", "completed", "failed"},
          file \in BOOLEAN, upload \in BOOLEAN : WorkerCallback(id, status, file, upload)
    /\ UNCHANGED <<W, videoQueue, activeJobs, vtask, vpc, attempts, tempBlob,
                   videoLimit, usageRead, processingQueue, isProcessing, atask, apc,
                   arow, chunkIdx, audioUsed, audioLimit, audioRead, dequeued,
                   started, adequeued, released, exitPath, acommits,
                   chatVars, chunkVars, del, deleted, clock, tokens, verdict,
                   tempDirFiles, concat, mediaVars, moreVars>>

SpecCallback == InitCallback /\ [][CallbackNext]_vars

\* C22: a callback with status completed delivered for a job that is already
\* completed returns success and performs no upload, no status change and no
\* second video-minutes commit, so two deliveries leave the row as one does;
\* no job has more than one commit or more than one uploaded file.
C22_SecondCompletedChangesNothing ==
    [][\A id \in VideoIds :
          /\ \A file \in BOOLEAN, upload \in BOOLEAN :
                WorkerCallback(id, "completed", file, upload)
                /\ vrow[id].status = "completed"
                => /\ res'.status = 200
                   /\ UNCHANGED <<vrow, storage, uploaded, commits, videoUsed>>
          /\ commits'[id] <= 1
          /\ Cardinality({k \in uploaded' : k[2] = id}) <= 1
          /\ vrow'[id].status = "completed" => vrow'[id].url = PublicUrl(CallbackKey(id,
                 CHOOSE n \in 1..MaxDeliveries : CallbackKey(id, n) \in uploaded'))]_vars

\* A job completed by its first callback and delivered completed a second time.
C22_Witness ==
    \E id \in VideoIds : /\ delivered[id] = <<"completed", "completed">>
                         /\ vrow[id].status = "completed"
                         /\ commits[id] = 1

\* ------------------------------------------------ voice-service token
\* Strings are sequences of character codes: "0".."9" are 48..57, "a".."f"
\* are 97..102, "." is 46.
Dot == 46
TokenPrefix == "VOICE_CLONE_AUTH-"
Secrets == {"k1", "k2"}
KeyIndex(secret) == IF secret = "k1" THEN 1 ELSE 2

\* `${timestamp}`: the decimal digits of a number.
RECURSIVE Decimal(_)
Decimal(n) == IF n < 10 THEN <<48 + n>> ELSE Decimal(n \div 10) \o <<48 + (n % 10)>>

\* The number a string of decimal digits stands for; -1 if it is not one.
RECURSIVE ParseDecimal(_)
ParseDecimal(codes) ==
    IF codes = <<>> \/ \E i \in 1..Len(codes) : codes[i] \notin 48..57 THEN -1
    ELSE IF Len(codes) = 1 THEN codes[1] - 48
    ELSE 10 * ParseDecimal(SubSeq(codes, 1, Len(codes) - 1)) + codes[Len(codes)] - 48

HexCode(h) == IF h < 10 THEN 48 + h ELSE 87 + h

\* crypto.createHmac("sha256", secretKey).update(stringToSign).digest("hex"),
\* idealised: a string of hex digits that differs whenever the key or the
\* message differs (the digest is shortened to two digits).
HmacHex(secretKey, stringToSign) ==
    <<HexCode(KeyIndex(secretKey)), HexCode(ParseDecimal(stringToSign) % 16)>>

\* The base64url alphabet: A-Z, a-z, 0-9, "-", "_".
Base64UrlChar(i) ==
    IF i < 26 THEN 65 + i ELSE IF i < 52 THEN 71 + i ELSE IF i < 62 THEN i - 4
    ELSE IF i = 62 THEN 45 ELSE 95
Base64UrlIndex(c) == CHOOSE i \in 0..63 : Base64UrlChar(i) = c

\* Buffer.from(payload).toString("base64url"): three bytes make four
\* characters, a rest of one or two bytes makes two or three; no padding.
RECURSIVE Base64Url(_)
Base64Url(b) ==
    IF Len(b) = 0 THEN <<>>
    ELSE IF Len(b) = 1
    THEN <<Base64UrlChar(b[1] \div 4), Base64UrlChar((b[1] % 4) * 16)>>
    ELSE IF Len(b) = 2
    THEN <<Base64UrlChar(b[1] \div 4),
           Base64UrlChar((b[1] % 4) * 16 + b[2] \div 16),
           Base64UrlChar((b[2] % 16) * 4)>>
    ELSE <<Base64UrlChar(b[1] \div 4),
           Base64UrlChar((b[1] % 4) * 16 + b[2] \div 16),
           Base64UrlChar((b[2] % 16) * 4 + b[3] \div 64),
           Base64UrlChar(b[3] % 64)>> \o Base64Url(SubSeq(b, 4, Len(b)))

\* The token with the payload's two parts in the other order.
generateVoiceServiceTokenSwapped(secretKey, timestamp) ==
    LET stringToSign == Decimal(timestamp)
        signature == HmacHex(secretKey, stringToSign)
        payload == stringToSign \o <<Dot>> \o signature
    IN [prefix |-> TokenPrefix, body |-> Base64Url(payload)]

generateVoiceServiceToken(secretKey, timestamp) ==
    LET stringToSign == Decimal(timestamp)
        signature == HmacHex(secretKey, stringToSign)
        payload == signature \o <<Dot>> \o stringToSign
    IN [prefix |-> TokenPrefix, body |-> Base64Url(payload)]

\* Decoding, as the voice service does it: base64url to bytes, split on ".".
RECURSIVE FromBase64Url(_)
FromBase64Url(c) ==
    LET s == [i \in 1..Len(c) |-> Base64UrlIndex(c[i])]
    IN IF Len(c) < 2 THEN <<>>
       ELSE IF Len(c) = 2 THEN <<s[1] * 4 + s[2] \div 16>>
       ELSE IF Len(c) = 3
       THEN <<s[1] * 4 + s[2] \div 16, (s[2] % 16) * 16 + s[3] \div 4>>
       ELSE <<s[1] * 4 + s[2] \div 16, (s[2] % 16) * 16 + s[3] \div 4,
              (s[3] % 4) * 64 + s[4]>> \o FromBase64Url(SubSeq(c, 5, Len(c)))

RECURSIVE SplitOnDot(_)
SplitOnDot(codes) ==
    IF \A i \in 1..Len(codes) : codes[i] # Dot THEN <<codes>>
    ELSE LET k == CHOOSE i \in 1..Len(codes) :
                     codes[i] = Dot /\ \A j \in 1..(i - 1) : codes[j] # Dot
         IN <<SubSeq(codes, 1, k - 1)>> \o SplitOnDot(SubSeq(codes, k + 1, Len(codes)))

DecodeToken(token) ==
    LET parts == SplitOnDot(FromBase64Url(token.body))
    IN IF token.prefix # TokenPrefix \/ Len(parts) # 2
       THEN [signature |-> <<>>, timestamp |-> -1]
       ELSE [signature |-> parts[1], timestamp |-> ParseDecimal(parts[2])]

\* The verifier re-derives the HMAC of the decoded timestamp under its secret.
Verifies(token, secret) ==
    LET d == DecodeToken(token)
    IN d.timestamp >= 0 /\ d.signature = HmacHex(secret, Decimal(d.timestamp))

GenerateToken(secret) ==
    /\ tokens' = tokens \cup {[second |-> clock, secret |-> secret,
                               token |-> generateVoiceServiceToken(secret, clock)]}
    /\ UNCHANGED <<clock, verdict>>

ClockTick ==
    /\ clock < FirstSecond + MaxSeconds
    /\ clock' = clock + 1
    /\ UNCHANGED <<tokens, verdict>>

VerifyToken(t, secret) ==
    /\ verdict' = [token |-> t.token, secret |-> secret,
                   timestamp |-> DecodeToken(t.token).timestamp,
                   ok |-> Verifies(t.token, secret)]
    /\ UNCHANGED <<clock, tokens>>

InitToken ==
    /\ W = 1
    /\ videoLimit = AmpleLimit
    /\ audioLimit = AmpleLimit
    /\ videoUsed = 0
    /\ audioUsed = 0
    /\ InitJobs

TokenFrame ==
    UNCHANGED <<jobVars, chatVars, chunkVars, del, deleted, delivered, tempDirFiles,
                concat, mediaVars, moreVars>>
TokenMint == (\E secret \in Secrets : GenerateToken(secret)) /\ TokenFrame
TokenClock == ClockTick /\ TokenFrame
TokenCheck == (\E t \in tokens, secret \in Secrets : VerifyToken(t, secret)) /\ TokenFrame

TokenNext == TokenMint \/ TokenClock \/ TokenCheck

SpecToken == InitToken /\ [][TokenNext]_vars

\* C24: two voice-service tokens generated at different unix seconds differ;
\* decoding a token (strip the prefix, base64url-decode, split on ".") returns
\* the timestamp it was built from and a signature equal to the HMAC of that
\* timestamp under the signer's secret; the signature verifies exactly when
\* the verifier's secret is the signer's.
C24_TokenRoundTrip ==
    /\ \A a \in tokens, b \in tokens :
          a.secret = b.secret /\ a.second # b.second => a.token # b.token
    /\ \A t \in tokens :
          /\ DecodeToken(t.token).timestamp = t.second
          /\ DecodeToken(t.token).signature = HmacHex(t.secret, Decimal(t.second))
    /\ \A t \in tokens :
          verdict.token = t.token
          => /\ verdict.timestamp = t.second
             /\ verdict.ok <=> verdict.secret = t.secret

\* A token of a two-digit second verified under the signer's secret, with a
\* token of another second generated under the same secret.
C24_Witness ==
    /\ verdict.ok
    /\ verdict.timestamp >= 10
    /\ \E a \in tokens, b \in tokens :
          /\ a.token = verdict.token
          /\ b.secret = a.secret
          /\ b.second < 10

\* ------------------------------------------------ concatenating audio chunks
ChunkFile(i) == <<"chunk", i>>
ListFile == <<"filelist">>
OutputFile == <<"concatenated">>
ChunkFiles(n) == {ChunkFile(i) : i \in 0..(n - 1)}

\* concatenateAudioFiles up to the await of ffmpeg: a single buffer is
\* returned as it is; otherwise the chunk files and the list file are written
\* one after the other, `written` of them before a write throws.
ConcatBegin(n, written) ==
    /\ concat.pc = "idle"
    /\ written \in 0..(n + 1)
    /\ IF n = 1
       THEN /\ written = 0
            /\ concat' = [concat EXCEPT !.pc = "returned", !.n = n]
            /\ UNCHANGED tempDirFiles
       ELSE /\ tempDirFiles' = ChunkFiles(IF written > n THEN n ELSE written)
                                 \cup (IF written > n THEN {ListFile} ELSE {})
            /\ concat' = [concat EXCEPT !.pc = IF written > n THEN "ffmpeg" ELSE "threw",
                                        !.n = n]

\* await execAsync(ffmpegCommand) and readFileSync(outputPath); either throws
\* into the catch block, which rethrows.
ConcatExec(outcome, output) ==
    /\ concat.pc = "ffmpeg"
    /\ outcome = "ok" => output
    /\ tempDirFiles' = IF output THEN tempDirFiles \cup {OutputFile} ELSE tempDirFiles
    /\ concat' = [concat EXCEPT !.pc = IF outcome = "ok" THEN "cleanup" ELSE "threw"]

\* The cleanup after a successful read: every chunk file is unlinked in a try
\* of its own, the list file and the output file in one try; `failing` are
\* the files whose unlinkSync throws.
ConcatCleanup(failing) ==
    /\ concat.pc = "cleanup"
    /\ failing \subseteq tempDirFiles
    /\ tempDirFiles' = failing \cup (IF ListFile \in failing THEN {OutputFile} ELSE {})
    /\ concat' = [concat EXCEPT !.pc = "returned", !.unlinkFailed = failing # {}]

ConcatFrame ==
    UNCHANGED <<jobVars, chatVars, chunkVars, del, deleted, delivered, clock, tokens,
                verdict, mediaVars, moreVars>>
ConcatStart == (\E n \in 1..MaxBuffers, k \in 0..(MaxBuffers + 1) : ConcatBegin(n, k))
               /\ ConcatFrame
ConcatRun == (\E o \in {"ok", "ffmpeg_error", "read_error"}, out \in BOOLEAN :
                 ConcatExec(o, out)) /\ ConcatFrame
ConcatEnd == (\E f \in SUBSET tempDirFiles : ConcatCleanup(f)) /\ ConcatFrame

ConcatNext == ConcatStart \/ ConcatRun \/ ConcatEnd

SpecConcat == InitToken /\ [][ConcatNext]_vars

\* C28: every temporary file concatenateAudioFiles creates (the chunk files,
\* the list file and the output file) has been removed by the time the
\* function returns or throws, also when the concatenation step fails.
C28_TempFilesRemoved == concat.pc \in {"returned", "threw"} => tempDirFiles = {}

\* C28, the part the function keeps: when it returns and no unlink failed, no
\* temporary file is left.
C28_RemovedOnCleanReturn ==
    concat.pc = "returned" /\ ~concat.unlinkFailed => tempDirFiles = {}

\* ------------------------------------------------ one reply per turn
\* The entries of a sequence of <<turn, text>> that belong to turn t.
OfTurn(seq, t) == {i \in 1..Len(seq) : seq[i][1] = t}
Position(seq, e) == CHOOSE i \in 1..Len(seq) : seq[i] = e

\* The transcript holds the user entry of turn t once and, after it, its
\* model entry once.
Transcribed(t) ==
    /\ Cardinality({i \in 1..Len(transcript) : transcript[i] = <<"user", t>>}) = 1
    /\ Cardinality({i \in 1..Len(transcript) : transcript[i] = <<"model", t>>}) = 1
    /\ Position(transcript, <<"user", t>>) < Position(transcript, <<"model", t>>)

\* C30: for each user_text processed in a ready session exactly one
\* llm_response_text frame is sent to the client and exactly one text_to_speak
\* with the identical text to the voice upstream, and the transcript gains the
\* user entry followed by the model entry, also when the reply is the fallback
\* sentence of a failed LLM call.
C30_OneReplyOneSpeechPerTurn ==
    \A t \in Turns :
        tpc[t] = "done"
        => /\ Cardinality(OfTurn(replies, t)) = 1
           /\ Cardinality(OfTurn(said, t)) = 1
           /\ \A i \in OfTurn(replies, t), j \in OfTurn(said, t) : replies[i] = said[j]
           /\ Transcribed(t)

\* C30, for the sessions whose client socket and voice upstream are open: every
\* turn that was answered has exactly one llm_response_text and one
\* text_to_speak with the same text; in every session a turn has at most one of
\* each, a text_to_speak carries the text of the turn's reply, and the
\* transcript holds the user entry followed by the model entry.
C30_OneReplyOneSpeechWhileOpen ==
    \A t \in Turns :
        tpc[t] = "done"
        => /\ Cardinality(OfTurn(replies, t)) <= 1
           /\ Cardinality(OfTurn(said, t)) <= 1
           /\ \A i \in OfTurn(replies, t), j \in OfTurn(said, t) : replies[i] = said[j]
           /\ Transcribed(t)
           /\ ws = "open" /\ voiceServiceWs = "open"
              => /\ Cardinality(OfTurn(replies, t)) = 1
                 /\ Cardinality(OfTurn(said, t)) = 1

\* An open session with a turn answered by the fallback sentence, sent once to
\* the client and once to the voice upstream.
C30_Witness ==
    \E t \in Turns :
        /\ tpc[t] = "done"
        /\ ws = "open"
        /\ voiceServiceWs = "open"
        /\ <<t, "fallback_text">> \in {replies[i] : i \in 1..Len(replies)}
        /\ <<t, "fallback_text">> \in {said[i] : i \in 1..Len(said)}

\* ------------------------------------------------ binary frames of a session
AudioHeader == 1        \* 0x01
VideoHeader == 2        \* 0x02

\* The n-th binary message of an upstream; its bytes stand for themselves.
Payload(from, n) == <<from, n>>
Arrived(from) == Cardinality({i \in 1..Len(arrivals) : arrivals[i].from = from})

\* Buffer.concat([header, data]); the handler of videoChatHandler.js sends the
\* data as it came.
ClientFrame(header, data) ==
    IF variant = "mediator" THEN [header |-> <<header>>, data |-> data]
    ELSE [header |-> <<>>, data |-> data]

\* voiceServiceWs.onmessage, a raw audio chunk: to the client if its socket is
\* open, and as it is to the video upstream if that is open.
VoiceChunk ==
    LET data == Payload("voice", Arrived("voice") + 1)
    IN /\ cpc = "registered"
       /\ voiceServiceWs = "open"
       /\ Arrived("voice") < MaxMedia
       /\ arrivals' = Append(arrivals, [from |-> "voice", data |-> data,
                                        clientOpen |-> ws = "open",
                                        videoOpen |-> videoServiceWs = "open"])
       /\ toClient' = IF ws = "open" THEN Append(toClient, ClientFrame(AudioHeader, data))
                      ELSE toClient
       /\ toVideo' = IF videoServiceWs = "open" THEN Append(toVideo, data) ELSE toVideo

\* videoServiceWs.onmessage, a video frame: to the client if its socket is open.
VideoFrame ==
    LET data == Payload("video", Arrived("video") + 1)
    IN /\ cpc = "registered"
       /\ videoServiceWs = "open"
       /\ Arrived("video") < MaxMedia
       /\ arrivals' = Append(arrivals, [from |-> "video", data |-> data,
                                        clientOpen |-> ws = "open",
                                        videoOpen |-> TRUE])
       /\ toClient' = IF ws = "open" THEN Append(toClient, ClientFrame(VideoHeader, data))
                      ELSE toClient
       /\ UNCHANGED toVideo

MediaFrame ==
    UNCHANGED <<jobVars, chunkVars, del, deleted, delivered, clock, tokens, verdict,
                tempDirFiles, concat, moreVars>>
MediaVoice == VoiceChunk /\ UNCHANGED chatVars /\ MediaFrame
MediaVideo == VideoFrame /\ UNCHANGED chatVars /\ MediaFrame
MediaUpstream == ChatUpstream /\ UNCHANGED mediaVars /\ MediaFrame

MediaNext == MediaVoice \/ MediaVideo \/ MediaUpstream

SpecMedia == InitTurns /\ [][MediaNext]_vars

\* The messages of one upstream among a sequence of data, in their order.
From(seq, from) == SelectSeq(seq, LAMBDA d : d[1] = from)
DataOf(sent) == [i \in 1..Len(sent) |-> sent[i].data]
Numbers(seq) == [i \in 1..Len(seq) |-> seq[i][2]]

\* C31: every binary frame sent to the client is the byte 0x01 followed by the
\* bytes of one voice chunk or the byte 0x02 followed by the bytes of one video
\* frame, in the arrival order of each upstream, and every voice chunk is sent
\* as it is to the video upstream when that socket is open.
C31_FramesPrefixedAndForwarded ==
    /\ \A i \in 1..Len(toClient) :
          \/ toClient[i].header = <<AudioHeader>> /\ toClient[i].data[1] = "voice"
          \/ toClient[i].header = <<VideoHeader>> /\ toClient[i].data[1] = "video"
    /\ Ascending(Numbers(From(DataOf(toClient), "voice")))
    /\ Ascending(Numbers(From(DataOf(toClient), "video")))
    /\ \A i \in 1..Len(arrivals) :
          /\ arrivals[i].clientOpen
             => \E k \in 1..Len(toClient) : toClient[k].data = arrivals[i].data
          /\ arrivals[i].from = "voice" /\ arrivals[i].videoOpen
             => \E k \in 1..Len(toVideo) : toVideo[k] = arrivals[i].data
    /\ Ascending(Numbers(toVideo))

\* C31 for the sessions of handleVideoChat of part_013.
C31_MediatorFramesPrefixed == variant = "mediator" => C31_FramesPrefixedAndForwarded

\* ------------------------------------------------ an upstream closes
UpstreamClosed == videoServiceWs = "closed" \/ voiceServiceWs = "closed"

\* C32: when the voice or the video upstream socket of a registered session
\* closes, before or after readiness, the client socket is closed as a
\* consequence: the step that handles the close leaves the client socket
\* closing or closed, or leaves the connection watchdog armed to close it.
C32_UpstreamCloseEndsSession ==
    [][cpc = "registered" /\ ws = "open" /\ (VideoClosed \/ VoiceClosed)
       => ws' # "open" \/ connectionTimeout'.state = "armed"]_vars

\* C32, the part the mediator keeps: in a ready session of part_013 the close
\* of an upstream starts the close of the client socket at once.
C32_ReadyMediatorClosesClient ==
    [][variant = "mediator" /\ isFullyConnected /\ (VideoClosed \/ VoiceClosed)
       => ws' # "open"]_vars

\* ------------------------------------------------ the records of a session
MaxVoiceErrors == 1

\* videoChatHandler.js inserts the row of "conversations" before it registers
\* its listeners; part_013 keeps no row.
InitRecord ==
    /\ RegisteredSession
    /\ NoChunking
    /\ OtherSide
    /\ conversation = (IF variant = "handler" THEN "active" ELSE "none")
    /\ chat_history = <<>>
    /\ voiceErrors = 0
    /\ NoGemini
    /\ W = 1
    /\ videoLimit = AmpleLimit
    /\ audioLimit = AmpleLimit
    /\ videoUsed = 0
    /\ audioUsed = 0
    /\ JobFields

RecordFrame ==
    UNCHANGED <<jobVars, chunkVars, del, deleted, delivered, clock, tokens, verdict,
                tempDirFiles, concat, mediaVars, geminiVars>>

\* voiceServiceWs.onmessage, a message of type "error": the error frame to the
\* client, then the row of the conversation is marked failed.
VoiceErrorMessage ==
    /\ variant = "handler"
    /\ cpc = "registered"
    /\ voiceServiceWs = "open"
    /\ voiceErrors < MaxVoiceErrors
    /\ voiceErrors' = voiceErrors + 1
    /\ frames' = IF ws = "open" THEN [frames EXCEPT !.error = @ + 1] ELSE frames
    /\ conversation' = IF conversation = "none" THEN "none" ELSE "failed"
    /\ UNCHANGED <<variant, cpc, ws, now, conversationStartTime, connectionTimeout,
                   readyVars, upstreamVars, closeVars, turnVars, signalled,
                   chat_history>>

\* ws.on("close") of videoChatHandler.js up to the end of its record block: the
\* update of the conversation to "ended", then the insert into chat_history when
\* chatMessages is not empty (the insert is taken to succeed).
SaveRecord ==
    /\ RecordDone
    /\ conversation' = IF conversation = "none" THEN "none" ELSE "ended"
    /\ chat_history' = IF conversation # "none" /\ Len(transcript) > 0
                         THEN Append(chat_history, transcript)
                         ELSE chat_history
    /\ UNCHANGED voiceErrors

RecordMessage ==
    /\ (\E short \in BOOLEAN : UserText(short)) \/ StopSpeaking
    /\ UNCHANGED recordVars /\ RecordFrame
RecordReply ==
    /\ \E t \in 1..MaxTurns, failed \in BOOLEAN : LlmDone(t, failed)
    /\ UNCHANGED recordVars /\ RecordFrame
RecordUpstream == ChatUpstream /\ UNCHANGED recordVars /\ RecordFrame
RecordVoiceError == VoiceErrorMessage /\ RecordFrame
RecordClose ==
    /\ WsClose \/ ClientError \/ \E ok \in BOOLEAN : EndStreamDone(ok)
    /\ UNCHANGED recordVars /\ RecordFrame
RecordSave == SaveRecord /\ RecordFrame

RecordNext ==
    \/ RecordMessage \/ RecordReply \/ RecordUpstream \/ RecordVoiceError
    \/ RecordClose \/ RecordSave

SpecRecord == InitRecord /\ [][RecordNext]_vars

\* The close listener of the session has run to its end.
ListenerDone == ws = "closed" /\ hpc = "done"

\* C33: at session close the transcript is persisted exactly when it is not
\* empty: once the close listener has finished, chat_history holds a row of the
\* session if and only if chatMessages has an entry.
C33_TranscriptPersistedIffNonEmpty ==
    ListenerDone => (Len(chat_history) > 0 <=> Len(transcript) > 0)

\* C33, for the sessions of videoChatHandler.js: the row is there exactly when
\* chatMessages is not empty, and it holds the entries chatMessages had then.
C33_HandlerPersistsTranscript ==
    variant = "handler" /\ ListenerDone
    => /\ Len(chat_history) > 0 <=> Len(transcript) > 0
       /\ Len(chat_history) <= 1

\* ------------------------------------------------ the LLM history
MAX_HISTORY_LENGTH == 10
MaxHistoryTurns == 6
SessionId == "s1"

\* chatSessions as a function on the ids it holds
Has(sid) == \E i \in 1..Len(chatSessions) : chatSessions[i][1] = sid
Get(sid) == (CHOOSE i \in 1..Len(chatSessions) : chatSessions[i][1] = sid)
History(sid) == chatSessions[Get(sid)][2]
SetHistory(sid, h) == [chatSessions EXCEPT ![Get(sid)] = <<sid, h>>]
DeleteEntry(sid) == SelectSeq(chatSessions, LAMBDA e : e[1] # sid)

\* chatHistory.slice(chatHistory.length - MAX_HISTORY_LENGTH)
LastEntries(h, n) == IF Len(h) <= n THEN h ELSE SubSeq(h, Len(h) - n + 1, Len(h))

\* the array the local variable chatHistory of the call refers to
LocalHistory == IF gcall.shared THEN History(SessionId) ELSE gcall.local

\* getGeminiResponse, up to the await of getAvatarPersonalityFromDB: the entry
\* of the session is looked up, and created empty when there is none.
GeminiEnter ==
    /\ gcall.pc = "idle"
    /\ ~gsession.closed
    /\ gsession.turns < MaxHistoryTurns
    /\ gsession' = [gsession EXCEPT !.turns = @ + 1]
    /\ chatSessions' = IF Has(SessionId) THEN chatSessions
                       ELSE Append(chatSessions, <<SessionId, <<>>>>)
    /\ gcall' = [pc |-> "personality", shared |-> TRUE, local |-> <<>>]
    /\ UNCHANGED contents

\* getGeminiResponse from the personality to the await of generateContent: the
\* user entry is pushed on the array of the Map, a longer array is sliced into
\* a new one that only the local variable holds, and the local array is sent.
GeminiAsk(found) ==
    /\ gcall.pc = "personality"
    /\ IF ~found
         THEN /\ gcall' = NoCall
              /\ UNCHANGED <<chatSessions, contents>>
         ELSE LET pushed == Append(LocalHistory, <<"user", gsession.turns>>)
                  sliced == Len(pushed) > MAX_HISTORY_LENGTH
                  sent   == LastEntries(pushed, MAX_HISTORY_LENGTH)
              IN  /\ chatSessions' = IF gcall.shared
                                       THEN SetHistory(SessionId, pushed)
                                       ELSE chatSessions
                  /\ gcall' = [pc |-> "generate",
                               shared |-> gcall.shared /\ ~sliced,
                               local |-> IF gcall.shared /\ ~sliced THEN <<>> ELSE sent]
                  /\ contents' = sent
    /\ UNCHANGED gsession

\* generateContent settles: the reply is pushed on the local array, nothing is
\* pushed when the call failed.
GeminiDone(ok) ==
    /\ gcall.pc = "generate"
    /\ gcall' = NoCall
    /\ chatSessions' = IF ok /\ gcall.shared
                         THEN SetHistory(SessionId,
                                         Append(History(SessionId), <<"model", gsession.turns>>))
                         ELSE chatSessions
    /\ UNCHANGED <<contents, gsession>>

\* saveChatHistory: a history with entries is inserted, and the entry leaves
\* the Map when the insert succeeded.
saveChatHistory(sid, ok) ==
    IF Has(sid) /\ Len(History(sid)) > 0 /\ ok THEN DeleteEntry(sid) ELSE chatSessions

\* ws.on("close"): voiceChatHandler.js calls saveChatHistory, handleVideoChat
\* does not. A call in flight keeps the array it had.
SessionClose(ok) ==
    /\ ~gsession.closed
    /\ gsession' = [gsession EXCEPT !.closed = TRUE]
    /\ LET after == IF gsession.kind = "voice"
                       THEN saveChatHistory(SessionId, ok)
                       ELSE chatSessions
       IN  /\ chatSessions' = after
           /\ gcall' = IF gcall.pc # "idle" /\ gcall.shared /\ after # chatSessions
                         THEN [gcall EXCEPT !.shared = FALSE,
                                            !.local = History(SessionId)]
                         ELSE gcall
    /\ UNCHANGED contents

GeminiFrame ==
    UNCHANGED <<jobVars, chatVars, chunkVars, del, deleted, delivered, clock, tokens,
                verdict, tempDirFiles, concat, mediaVars, recordVars>>

GeminiCall == GeminiEnter /\ GeminiFrame
GeminiSend == (\E found \in BOOLEAN : GeminiAsk(found)) /\ GeminiFrame
GeminiSettle == (\E ok \in BOOLEAN : GeminiDone(ok)) /\ GeminiFrame
GeminiClose == (\E ok \in BOOLEAN : SessionClose(ok)) /\ GeminiFrame

GeminiNext == GeminiCall \/ GeminiSend \/ GeminiSettle \/ GeminiClose

InitGemini ==
    /\ NoChat /\ NoChunking /\ OtherSide /\ NoRecord /\ JobFields
    /\ W = 1
    /\ videoLimit = AmpleLimit
    /\ audioLimit = AmpleLimit
    /\ videoUsed = 0
    /\ audioUsed = 0
    /\ chatSessions = <<>>
    /\ contents = NoContents
    /\ gcall = NoCall
    /\ gsession \in [kind : SessionKinds, turns : {0}, closed : {FALSE}]

SpecGemini == InitGemini /\ [][GeminiNext]_vars

\* C34: the history kept in the Map for a session holds at most
\* MAX_HISTORY_LENGTH entries, the most recent ones, and the contents passed to
\* the LLM on a turn are that history.
C34_HistoryWindowBounded ==
    /\ Has(SessionId) => Len(History(SessionId)) <= MAX_HISTORY_LENGTH
    /\ gcall.pc = "generate" /\ Has(SessionId) => contents = History(SessionId)

\* C34, what the code keeps: the contents of a call are at most
\* MAX_HISTORY_LENGTH entries and end with the user entry of the turn.
C34_ContentsBounded ==
    gcall.pc = "generate"
    => /\ Len(contents) <= MAX_HISTORY_LENGTH
       /\ contents[Len(contents)] = <<"user", gsession.turns>>

\* C35: after the client socket of a session has closed the Map holds no entry
\* for its session id, for voice and for video sessions, whether or not the
\* history was saved.
C35_HistoryDroppedOnClose ==
    gsession.closed => ~Has(SessionId)

\* C35, what the code keeps: a voice session whose history has entries and
\* whose insert succeeded has no entry left; this is the only way an entry
\* leaves the Map.
C35_DroppedOnlyWhenSaved ==
    [][Has(SessionId) /\ ~Has(SessionId)'
       => gsession.kind = "voice" /\ gsession'.closed /\ Len(History(SessionId)) > 0]_vars

\* ------------------------------------------------ the audio worker
AudioOnlyNext == AudioSubmit \/ AudioRun

\* The audio controller alone.
SpecAudio == InitToken /\ [][AudioOnlyNext]_vars

\* Every pending await of processQueue settles.
FairSpecAudio == SpecAudio /\ WF_vars(AudioRun)

\* the audio jobs processQueue has shifted and not finished
AudioRunning == {j \in AudioIds : apc[j] \notin {"none", "queued", "done"}}

C37_FailedNeverEnded ==
    [][conversation = "failed" => conversation' # "ended"]_vars

\* C38: a user_text frame received before the session is ready causes no LLM
\* call, no text_to_speak to the voice upstream, no frame to the client and no
\* transcript entry, neither in the step that receives it nor later.
C38_EarlyTextHasNoEffect ==
    /\ [][Len(tpc') > Len(tpc) /\ ~isFullyConnected
          => UNCHANGED <<frames, llmCalls, spoken, replies, said, transcript>>]_vars
    /\ [](\A t \in Turns :
            tpc[t] = "ignored"
            => /\ \A i \in 1..Len(llmCalls) : llmCalls[i] # t
               /\ \A i \in 1..Len(spoken) : spoken[i] # t
               /\ OfTurn(replies, t) = {}
               /\ OfTurn(said, t) = {}
               /\ \A i \in 1..Len(transcript) : transcript[i][2] # t)

\* C38, witness: the first user_text came before readiness and was dropped, the
\* second came in the ready session and was answered.
C38_Witness ==
    /\ Len(tpc) = 2
    /\ tpc[1] = "ignored"
    /\ tpc[2] = "done"
    /\ OfTurn(replies, 2) # {}

\* ------------------------------------------------ deleting a job that runs
DeleteVideoRequest ==
    /\ \E d \in 1..MaxDeletes, id \in VideoIds : DeleteSelect(d, "video", id, User)
    /\ DeleteFrame

DeleteRunNext == VideoSubmit \/ VideoRun \/ DeleteVideoRequest \/ DeleteStep

\* The video controller with deleteVideo called while its jobs run.
SpecDeleteRun == InitToken /\ [][DeleteRunNext]_vars

\* the blobs of video job j: its temporary audio and its video
BlobsOf(j) == {k \in storage : k[1] = "temp_audio" /\ k[3] = j}
              \cup {k \in storage : k[1] = "generated_videos" /\ k[2] = j}

\* C39: after deleteVideo has returned success for a job no blob of the job
\* remains or later appears in the object store and no runner or poller writes
\* its row, also when the job was queued or processing at the deletion.
C39_DeletedJobLeavesNothing ==
    \A j \in VideoIds :
        <<"video", j>> \in deleted => BlobsOf(j) = {} /\ vrow[j] = NoRow

\* C39, what the code keeps: the updates of the runner and of the poller match
\* no row once the row is deleted, so the row stays absent.
C39_DeletedRowStaysAbsent ==
    \A j \in VideoIds : <<"video", j>> \in deleted => vrow[j] = NoRow

====
